---- MODULE Spec2Model ----
(***************************************************************************)
(* Model of the schema_salad Rust binder: the identifier registry          *)
(* (SeedData, src/de/seed.rs), the generated record decoders               *)
(* (macro/src/codegen/structs.rs), the generated union decoders            *)
(* (macro/src/codegen/enums.rs) and the list normalizers                   *)
(* (src/private/de/list.rs).                                               *)
(*                                                                         *)
(* Strings are sequences of one-character strings, so that strip_prefix,   *)
(* contains, replace and format! are computed character by character.      *)
(***************************************************************************)
EXTENDS Integers, Sequences, FiniteSets, TLC

VARIABLES reg, fork, last, nops, un, bind

vars == <<reg, fork, last, nops, un, bind>>

(***************************************************************************)
(* Bounds of the model.                                                    *)
(***************************************************************************)
\* number of registry operations applied to a fresh registry and its clone
MaxOps == 4
\* number of registry operations that precede a union decode
MaxSetup == 2

(***************************************************************************)
(* Strings.                                                                *)
(***************************************************************************)
\* str::strip_prefix('#') is Some(..)
HasHashPrefix(s) == Len(s) > 0 /\ s[1] = "#"

\* the remainder strip_prefix('#') returns
StripHashPrefix(s) == Tail(s)

\* str::contains(['#', ':'])
ContainsAny(s, chars) == \E i \in 1..Len(s) : s[i] \in chars

\* str::replace(from, to) for a one-character pattern and replacement
ReplaceChar(s, from, to) == [i \in 1..Len(s) |-> IF s[i] = from THEN to ELSE s[i]]

\* format_compact!("{parent_id}/{id}") and push('/') + push_str(..)
SlashJoin(a, b) == a \o <<"/">> \o b

(***************************************************************************)
(* SeedData: the registry.  ids is the HashSet, parent_ids the VecDeque    *)
(* (back of the deque = last element of the sequence).                     *)
(***************************************************************************)
\* SeedData::new
new == [ids |-> {}, parent_ids |-> <<>>]

\* VecDeque::back
HasBack(parent_ids) == parent_ids /= <<>>
Back(parent_ids) == parent_ids[Len(parent_ids)]

\* the match of generate_id: the pair (id, parent_id)
resolve_id_pushes_absolute(id, parent_ids) ==
    IF HasHashPrefix(id)
    THEN [id |-> StripHashPrefix(id), parent_id |-> StripHashPrefix(id)]
    ELSE IF ContainsAny(id, {"#", ":"})
    THEN [id |-> ReplaceChar(id, ":", "#"), parent_id |-> ReplaceChar(id, ":", "#")]
    ELSE IF HasBack(parent_ids)
    THEN [id |-> SlashJoin(Back(parent_ids), id),
          parent_id |-> SlashJoin(Back(parent_ids), id)]
    ELSE [id |-> id, parent_id |-> id]

resolve_id_ignores_parent_for_hash(id, parent_ids) ==
    IF HasHashPrefix(id) /\ HasBack(parent_ids)
    THEN [id |-> SlashJoin(Back(parent_ids), StripHashPrefix(id)),
          parent_id |-> StripHashPrefix(id)]
    ELSE IF HasHashPrefix(id)
    THEN [id |-> StripHashPrefix(id), parent_id |-> StripHashPrefix(id)]
    ELSE IF ContainsAny(id, {"#", ":"})
    THEN [id |-> ReplaceChar(id, ":", "#"), parent_id |-> ReplaceChar(id, ":", "#")]
    ELSE IF HasBack(parent_ids)
    THEN [id |-> SlashJoin(Back(parent_ids), id), parent_id |-> id]
    ELSE [id |-> id, parent_id |-> id]

resolve_id_contains_first(id, parent_ids) ==
    IF ContainsAny(id, {"#", ":"})
    THEN [id |-> ReplaceChar(id, ":", "#"), parent_id |-> ReplaceChar(id, ":", "#")]
    ELSE IF HasBack(parent_ids)
    THEN [id |-> SlashJoin(Back(parent_ids), id), parent_id |-> id]
    ELSE [id |-> id, parent_id |-> id]

resolve_id(id, parent_ids) ==
    IF HasHashPrefix(id)
    THEN [id |-> StripHashPrefix(id), parent_id |-> StripHashPrefix(id)]
    ELSE IF ContainsAny(id, {"#", ":"})
    THEN [id |-> ReplaceChar(id, ":", "#"), parent_id |-> ReplaceChar(id, ":", "#")]
    ELSE IF HasBack(parent_ids)
    THEN [id |-> SlashJoin(Back(parent_ids), id), parent_id |-> id]
    ELSE [id |-> id, parent_id |-> id]

\* SeedData::generate_id: ok = Ok(..); ret is the id of Ok(id) or the id the
\* Err message names; r is the registry after the call
generate_id_pushes_on_error(r, id) ==
    LET p == resolve_id(id, r.parent_ids)
    IN  IF p.id \notin r.ids
        THEN [ok |-> TRUE, ret |-> p.id,
              r |-> [ids |-> r.ids \cup {p.id},
                     parent_ids |-> Append(r.parent_ids, p.parent_id)]]
        ELSE [ok |-> FALSE, ret |-> p.id,
              r |-> [ids |-> r.ids,
                     parent_ids |-> Append(r.parent_ids, p.parent_id)]]

generate_id(r, id) ==
    LET p == resolve_id(id, r.parent_ids)
    IN  IF p.id \notin r.ids
        THEN [ok |-> TRUE, ret |-> p.id,
              r |-> [ids |-> r.ids \cup {p.id},
                     parent_ids |-> Append(r.parent_ids, p.parent_id)]]
        ELSE [ok |-> FALSE, ret |-> p.id, r |-> r]

\* SeedData::push_subscope
push_subscope_ignores_parent(r, subscope) ==
    [r EXCEPT !.parent_ids = Append(@, subscope)]
push_subscope(r, subscope) ==
    IF HasBack(r.parent_ids)
    THEN [r EXCEPT !.parent_ids = Append(@, SlashJoin(Back(@), subscope))]
    ELSE [r EXCEPT !.parent_ids = Append(@, subscope)]

\* SeedData::pop_parent_id (pop_back on an empty deque is None, dropped)
pop_parent_id(r) ==
    IF HasBack(r.parent_ids)
    THEN [r EXCEPT !.parent_ids = SubSeq(@, 1, Len(@) - 1)]
    ELSE r

\* Clone for SeedDataInner (through the derived Clone of SeedData)
clone_keeps_ids(r) == [ids |-> r.ids, parent_ids |-> r.parent_ids]

clone(r) == [ids |-> {}, parent_ids |-> r.parent_ids]

\* the orders in which HashSet::into_iter may yield the ids of a set
IterOrders(S) ==
    {o \in [1..Cardinality(S) -> S] : \A i, j \in 1..Cardinality(S) : o[i] = o[j] => i = j}

\* the for loop of extend over the ids yielded in the order `order`
RECURSIVE extend_loop(_, _, _)
extend_loop(ids, order, i) ==
    IF i > Len(order)
    THEN [ok |-> TRUE, ret |-> <<>>, ids |-> ids]
    ELSE IF order[i] \notin ids
    THEN extend_loop(ids \cup {order[i]}, order, i + 1)
    ELSE [ok |-> FALSE, ret |-> order[i], ids |-> ids]

\* SeedData::extend, other's ids being yielded in the order `order`
extend_takes_stack(r, other, order) ==
    LET res == extend_loop(r.ids, order, 1)
    IN  [ok |-> res.ok, ret |-> res.ret,
         r |-> [ids |-> res.ids, parent_ids |-> other.parent_ids]]

extend_overwrites(r, other, order) ==
    [ok |-> TRUE, ret |-> <<>>,
     r |-> [ids |-> r.ids \cup other.ids, parent_ids |-> r.parent_ids]]

extend(r, other, order) ==
    LET res == extend_loop(r.ids, order, 1)
    IN  [ok |-> res.ok, ret |-> res.ret,
         r |-> [ids |-> res.ids, parent_ids |-> r.parent_ids]]

(***************************************************************************)
(* Raw document trees (serde Content).  k is the kind; s the text of a     *)
(* string; n the number of an integer or the truth value of a bool; es the *)
(* elements of a sequence or the (key, value) entries of a mapping, in     *)
(* document order, duplicate keys included.                                *)
(***************************************************************************)
TNull == [k |-> "null", s |-> <<>>, hi |-> 0, n |-> 0, es |-> <<>>]
TBool(b) == [k |-> "bool", s |-> <<>>, hi |-> 0, n |-> IF b THEN 1 ELSE 0, es |-> <<>>]
\* a 64-bit integer hi * 2^31 + lo, with 0 <= lo < 2^31
I64(hi, lo) == [hi |-> hi, lo |-> lo]
FromI32(n) == IF n < 0 THEN I64(-1, (n + 2147483647) + 1) ELSE I64(0, n)
Le64(a, b) == a.hi < b.hi \/ (a.hi = b.hi /\ a.lo <= b.lo)
\* `v as i32` of a 64-bit integer in the range of i32
AsI32(x) == IF x.hi = 0 THEN x.lo ELSE (x.lo - 2147483647) - 1
TLong(hi, lo) == [k |-> "int", s |-> <<>>, hi |-> hi, n |-> lo, es |-> <<>>]
TInt(n) == TLong(FromI32(n).hi, FromI32(n).lo)
\* a 64-bit float, the power of ten 10^e
TFloat(e) == [k |-> "float", s |-> <<>>, hi |-> 0, n |-> e, es |-> <<>>]
TStr(s) == [k |-> "str", s |-> s, hi |-> 0, n |-> 0, es |-> <<>>]
TSeq(es) == [k |-> "seq", s |-> <<>>, hi |-> 0, n |-> 0, es |-> es]
TMap(es) == [k |-> "map", s |-> <<>>, hi |-> 0, n |-> 0, es |-> es]
Entry(key, val) == [key |-> key, val |-> val]

Reverse(q) == [i \in 1..Len(q) |-> q[Len(q) + 1 - i]]

\* the orders a HashMap / HashSet iteration is drawn from: insertion order
\* or its reverse
Orders == {"fwd", "rev"}
InOrder(q, ord) == IF ord = "fwd" THEN q ELSE Reverse(q)
SetInOrder(S, ord) == InOrder(CHOOSE o \in IterOrders(S) : TRUE, ord)

(***************************************************************************)
(* Schema descriptors: what the derive macro reads from a type.            *)
(***************************************************************************)
NoStr == <<>>
NoVal == [v |-> "none"]

\* StructField with its #[salad(...)] attributes
Field(name, ty, optional) ==
    [name |-> name, ty |-> ty, optional |-> optional, subscope |-> NoStr,
     map_key |-> NoStr, map_predicate |-> NoStr, default |-> NoVal]

K_id == <<"i", "d">>
K_x == <<"x">>
K_y == <<"y">>
K_run == <<"r", "u", "n">>
K_steps == <<"s", "t", "e", "p", "s">>
K_jobs == <<"j", "o", "b", "s">>
K_us == <<"u", "s">>
K_u1 == <<"u", "1">>
K_u2 == <<"u", "2">>
K_alt == <<"a", "l", "t">>
K_in == <<"i", "n">>
K_ext == <<"e", "x", "t">>
K_class == <<"c", "l", "a", "s", "s">>
K_mode == <<"m", "o", "d", "e">>

\* the #[salad(as_str = ..)] literals of the unit variants
L_a == <<"a">>
L_A == <<"A">>
L_ab == <<"a", "b">>

Schema ==
    [ Str |-> [kind |-> "str"],
      Any |-> [kind |-> "any"],
      ListStep |-> [kind |-> "list", elem |-> "Step"],
      ListAny |-> [kind |-> "list", elem |-> "Any"],
      ListStr |-> [kind |-> "list", elem |-> "Str"],
      \* Box<[T]> of salad-core
      BoxAny |-> [kind |-> "boxlist", elem |-> "Any"],
      BoxStr |-> [kind |-> "boxlist", elem |-> "Str"],
      ListStepOrStr |-> [kind |-> "list", elem |-> "StepOrStr"],
      \* a record with an identifier
      Step |-> [kind |-> "record", id |-> K_id,
                fields |-> << Field(K_id, "Str", TRUE), Field(K_run, "Str", TRUE) >>],
      \* a record with an identifier, a mandatory field and nested records
      A |-> [kind |-> "record", id |-> K_id,
             fields |-> << Field(K_id, "Str", TRUE), Field(K_x, "Str", FALSE),
                           Field(K_steps, "ListStep", TRUE) >>],
      \* a record with an identifier and optional fields only
      B |-> [kind |-> "record", id |-> K_id,
             fields |-> << Field(K_id, "Str", TRUE), Field(K_y, "Str", TRUE) >>],
      \* a record without identifier
      P |-> [kind |-> "record", id |-> NoStr,
             fields |-> << Field(K_x, "Str", FALSE),
                           [Field(K_in, "ListStep", TRUE) EXCEPT !.subscope = <<"w">>] >>],
      Sub |-> [kind |-> "record", id |-> K_id,
               fields |-> << Field(K_id, "Str", TRUE), Field(K_steps, "ListStep", TRUE) >>],
      \* the document root
      W |-> [kind |-> "record", id |-> K_id,
             fields |-> << Field(K_id, "Str", TRUE),
                           Field(K_steps, "ListStep", TRUE),
                           [Field(K_jobs, "ListStep", TRUE) EXCEPT !.map_key = K_id],
                           Field(K_us, "ListStepOrStr", TRUE),
                           Field(K_u1, "StepOrStr", TRUE),
                           Field(K_u2, "StepOrStr", TRUE),
                           Field(K_alt, "SubOrAny", TRUE) >>],
      AB |-> [kind |-> "union", variants |-> <<"A", "B">>],
      BA |-> [kind |-> "union", variants |-> <<"B", "A">>],
      AP |-> [kind |-> "union", variants |-> <<"A", "P">>],
      StepOrStr |-> [kind |-> "union", variants |-> <<"Step", "Str">>],
      SubOrAny |-> [kind |-> "union", variants |-> <<"Sub", "Any">>],
      ABAny |-> [kind |-> "union", variants |-> <<"AB", "Any">>],
      \* enums of unit variants, by their literals in declared order
      Cls |-> [kind |-> "enum", literals |-> << L_a, L_A, L_ab >>],
      Dup |-> [kind |-> "enum", literals |-> << L_a, L_ab, L_a >>],
      \* records with #[salad(default = "..")] fields: a default that the
      \* field's type parses, and one that it does not
      D |-> [kind |-> "record", id |-> NoStr,
             fields |-> << Field(K_class, "Str", FALSE),
                           [Field(K_x, "Str", FALSE) EXCEPT !.default = TStr(<<"d">>)],
                           [Field(K_mode, "Cls", TRUE) EXCEPT !.default = TStr(L_ab)],
                           Field(K_y, "Str", TRUE) >>],
      DId |-> [kind |-> "record", id |-> K_id,
               fields |-> << Field(K_id, "Str", TRUE),
                             [Field(K_mode, "Cls", FALSE) EXCEPT !.default = TStr(L_A)],
                             Field(K_class, "Str", FALSE),
                             Field(K_x, "Str", FALSE) >>],
      DBad |-> [kind |-> "record", id |-> NoStr,
                fields |-> << Field(K_class, "Str", FALSE),
                              [Field(K_mode, "Cls", TRUE) EXCEPT !.default = TStr(<<"z">>)] >>],
      \* a root union
      WOrStr |-> [kind |-> "union", variants |-> <<"W", "Str">>] ]

(***************************************************************************)
(* Decoding.  A decode returns [ok, err, val, r]: Ok(val) or Err(err), and *)
(* the registry as the call leaves it.  `ord` is the iteration order of    *)
(* the hash collections met on the way.                                    *)
(***************************************************************************)
Ok(val, r) ==
    [ok |-> TRUE, err |-> "", enum |-> "", field |-> NoStr, expected |-> <<>>,
     val |-> val, r |-> r]
Err(err, r) ==
    [ok |-> FALSE, err |-> err, enum |-> "", field |-> NoStr, expected |-> <<>>,
     val |-> NoVal, r |-> r]

\* the final Err of a union's deserialize: err_string is
\* "data did not match any variant of enum {ident}"
no_variant(ty, r) ==
    [Err("data did not match any variant of enum", r) EXCEPT !.enum = ty]

I32_MIN == -2147483647 - 1
I32_MAX == 2147483647
\* the largest power of ten in F32_MIN..=F32_MAX (f32::MAX is 3.4e38)
F32_MAX_EXP10 == 38

RECURSIVE decode(_, _, _, _)
RECURSIVE decode_any(_, _)
RECURSIVE object_loop(_, _, _, _)
RECURSIVE seq_loop(_, _, _, _, _, _)
RECURSIVE map_or_seq_loop(_, _, _, _, _, _)
RECURSIVE map_loop(_, _, _, _, _, _)
RECURSIVE struct_loop(_, _, _, _, _, _)
RECURSIVE id_scan_loop(_, _, _, _, _)
RECURSIVE id_fields_loop(_, _, _, _, _, _)
RECURSIVE decode_union_from(_, _, _, _, _)

\* Deserialize for StrValue (CompactString)
decode_str(tree, r) ==
    IF tree.k = "str" THEN Ok([v |-> "str", s |-> tree.s], r) ELSE Err("invalid type", r)

\* FromStr and Deserialize of an enum of unit variants: the match arms in
\* declared order, the first equal literal wins
IsLiteral(ty, s) == \E i \in 1..Len(Schema[ty].literals) : Schema[ty].literals[i] = s
TagOf_last_equal(ty, s) ==
    CHOOSE i \in 1..Len(Schema[ty].literals) :
        /\ Schema[ty].literals[i] = s
        /\ \A j \in (i + 1)..Len(Schema[ty].literals) : Schema[ty].literals[j] /= s
TagOf(ty, s) ==
    CHOOSE i \in 1..Len(Schema[ty].literals) :
        /\ Schema[ty].literals[i] = s
        /\ \A j \in 1..(i - 1) : Schema[ty].literals[j] /= s
Unit(ty, i) == [v |-> "Unit", ty |-> ty, tag |-> i]

\* <ty as FromStr>::from_str
from_str(ty, s) ==
    CASE Schema[ty].kind = "str" -> [ok |-> TRUE, val |-> [v |-> "str", s |-> s]]
      [] Schema[ty].kind = "enum" ->
            IF IsLiteral(ty, s)
            THEN [ok |-> TRUE, val |-> Unit(ty, TagOf(ty, s))]
            ELSE [ok |-> FALSE, val |-> NoVal]
      [] OTHER -> [ok |-> FALSE, val |-> NoVal]

\* Deserialize of an enum of unit variants: deserialize_str(UnitVisitor);
\* the error of visit_str is invalid_value with every literal in the
\* expected text
decode_enum(ty, tree, r) ==
    IF tree.k /= "str" THEN [Err("invalid type", r) EXCEPT !.enum = ty]
    ELSE IF from_str(ty, tree.s).ok THEN Ok(from_str(ty, tree.s).val, r)
    ELSE [Err("invalid value", r) EXCEPT !.enum = ty, !.expected = Schema[ty].literals]

\* Display of an enum of unit variants
to_string(unit) == Schema[unit.ty].literals[unit.tag]

\* ObjectSeed::visit_map: `let value = map.next_value_seed(..)?` has given
\* res for entry i; the insert, then the loop goes on
object_insert(es, i, fxmap, res) ==
    IF ~res.ok THEN res
    ELSE object_loop(es, i + 1, (es[i].key :> res.val) @@ fxmap, res.r)

\* ObjectSeed::visit_map: the while loop from entry i on
object_loop_keeps_last(es, i, fxmap, r) ==
    IF i > Len(es)
    THEN Ok([v |-> "Object", fields |-> fxmap], r)
    ELSE object_insert(es, i, fxmap, decode_any(es[i].val, r))

object_loop(es, i, fxmap, r) ==
    IF i > Len(es)
    THEN Ok([v |-> "Object", fields |-> fxmap], r)
    ELSE IF es[i].key \in DOMAIN fxmap
    THEN Err("duplicate field", r)
    ELSE object_insert(es, i, fxmap, decode_any(es[i].val, r))

\* AnySeed (deserialize_any and the visitor's methods)
decode_any_rejects_long(tree, r) ==
    CASE tree.k = "bool" -> Ok([v |-> "Bool", n |-> tree.n], r)
      [] tree.k = "int" ->
            IF /\ Le64(FromI32(I32_MIN), I64(tree.hi, tree.n))
               /\ Le64(I64(tree.hi, tree.n), FromI32(I32_MAX))
            THEN Ok([v |-> "Int", n |-> AsI32(I64(tree.hi, tree.n))], r)
            ELSE Err("invalid value", r)
      [] tree.k = "float" ->
            IF tree.n <= F32_MAX_EXP10
            THEN Ok([v |-> "Float", n |-> tree.n], r)
            ELSE Ok([v |-> "Double", n |-> tree.n], r)
      [] tree.k = "str" -> Ok([v |-> "String", s |-> tree.s], r)
      [] tree.k = "map" -> object_loop(tree.es, 1, <<>>, r)
      [] tree.k = "seq" -> seq_loop("Any", tree.es, 1, <<>>, r, "fwd")
      [] OTHER -> Err("invalid type", r)

decode_any(tree, r) ==
    CASE tree.k = "bool" -> Ok([v |-> "Bool", n |-> tree.n], r)
      [] tree.k = "int" ->
            IF /\ Le64(FromI32(I32_MIN), I64(tree.hi, tree.n))
               /\ Le64(I64(tree.hi, tree.n), FromI32(I32_MAX))
            THEN Ok([v |-> "Int", n |-> AsI32(I64(tree.hi, tree.n))], r)
            ELSE Ok([v |-> "Long", hi |-> tree.hi, n |-> tree.n], r)
      [] tree.k = "float" ->
            IF tree.n <= F32_MAX_EXP10
            THEN Ok([v |-> "Float", n |-> tree.n], r)
            ELSE Ok([v |-> "Double", n |-> tree.n], r)
      [] tree.k = "str" -> Ok([v |-> "String", s |-> tree.s], r)
      [] tree.k = "map" -> object_loop(tree.es, 1, <<>>, r)
      [] tree.k = "seq" -> seq_loop("Any", tree.es, 1, <<>>, r, "fwd")
      [] OTHER -> Err("invalid type", r)

\* visit_seq of the list seeds: `seq.next_element_seed(..)?` has given res
\* for element i; the push, then the loop goes on
seq_push(elem, es, i, entries, ord, res) ==
    IF ~res.ok THEN res
    ELSE seq_loop(elem, es, i + 1, Append(entries, res.val), res.r, ord)

\* visit_seq of the list seeds: the while loop from element i on
seq_loop(elem, es, i, entries, r, ord) ==
    IF i > Len(es)
    THEN Ok([v |-> "List", items |-> entries], r)
    ELSE seq_push(elem, es, i, entries, ord, decode(elem, es[i], r, ord))

\* OneOrMoreDeserializeSeed::visit_map: `.map(|t| Box::from([t]))`
one_or_more_wrap(res) ==
    IF ~res.ok THEN res ELSE Ok([v |-> "List", items |-> <<res.val>>], res.r)

\* OneOrMoreDeserializeSeed
decode_one_or_more(elem, tree, r, ord) ==
    CASE tree.k = "map" -> one_or_more_wrap(decode(elem, tree, r, ord))
      [] tree.k = "seq" -> seq_loop(elem, tree.es, 1, <<>>, r, ord)
      [] OTHER -> Err("invalid type", r)

\* ListDeserializeSeed of salad-core: a scalar, a mapping or a sequence
decode_list(elem, tree, r, ord) ==
    CASE tree.k \in {"bool", "int", "float", "str", "map"} ->
            one_or_more_wrap(decode(elem, tree, r, ord))
      [] tree.k = "seq" -> seq_loop(elem, tree.es, 1, <<>>, r, ord)
      [] OTHER -> Err("invalid type", r)

\* MapOrSeqDeserializeSeed::visit_map: the object built of entry i has
\* been decoded to res; the push, then the loop goes on
map_or_seq_push(f, es, i, entries, ord, res) ==
    IF ~res.ok THEN res
    ELSE map_or_seq_loop(f, es, i + 1, Append(entries, res.val), res.r, ord)

\* whether a Vec of (key, value) pairs holds the key
HasEntry(es, key) == \E j \in 1..Len(es) : es[j].key = key

\* MapOrSeqDeserializeSeed::visit_map: the map handed to the element's seed
\* for an entry: the value's own entries and then the key, or the key and
\* the value under the predicate
map_or_seq_object_swaps_key_and_value(f, key, value) ==
    IF value.k = "map"
    THEN TMap(Append(value.es, Entry(f.map_key, TStr(key))))
    ELSE TMap(<< Entry(f.map_key, value), Entry(f.map_predicate, TStr(key)) >>)
map_or_seq_object_prefers_own(f, key, value) ==
    IF value.k = "map"
    THEN IF HasEntry(value.es, f.map_key)
         THEN value
         ELSE TMap(Append(value.es, Entry(f.map_key, TStr(key))))
    ELSE TMap(<< Entry(f.map_key, TStr(key)), Entry(f.map_predicate, value) >>)
map_or_seq_object(f, key, value) ==
    IF value.k = "map"
    THEN TMap(Append(value.es, Entry(f.map_key, TStr(key))))
    ELSE TMap(<< Entry(f.map_key, TStr(key)), Entry(f.map_predicate, value) >>)

\* MapOrSeqDeserializeSeed::visit_map: the while loop from entry i on
map_or_seq_loop_stops_after_first(f, es, i, entries, r, ord) ==
    IF i > Len(es) \/ i > 1
    THEN Ok([v |-> "List", items |-> entries], r)
    ELSE IF es[i].val.k /= "map" /\ f.map_predicate = NoStr
    THEN Err("data type cannot be deserialized as a list of objects", r)
    ELSE map_or_seq_push(f, es, i, entries, ord,
                         decode(Schema[f.ty].elem,
                                map_or_seq_object(f, es[i].key, es[i].val), r, ord))
map_or_seq_loop(f, es, i, entries, r, ord) ==
    IF i > Len(es)
    THEN Ok([v |-> "List", items |-> entries], r)
    ELSE IF es[i].val.k /= "map" /\ f.map_predicate = NoStr
    THEN Err("data type cannot be deserialized as a list of objects", r)
    ELSE map_or_seq_push(f, es, i, entries, ord,
                         decode(Schema[f.ty].elem,
                                map_or_seq_object(f, es[i].key, es[i].val), r, ord))

\* MapOrSeqDeserializeSeed
decode_map_or_seq(f, tree, r, ord) ==
    CASE tree.k = "map" -> map_or_seq_loop(f, tree.es, 1, <<>>, r, ord)
      [] tree.k = "seq" -> seq_loop(Schema[f.ty].elem, tree.es, 1, <<>>, r, ord)
      [] OTHER -> Err("invalid type", r)

\* MapVisitor::visit_map of salad-core: the object built of entry i has
\* been decoded to res; the push, then the loop goes on
map_push(f, es, i, entries, ord, res) ==
    IF ~res.ok THEN res
    ELSE map_loop(f, es, i + 1, Append(entries, res.val), res.r, ord)

\* MapVisitor::visit_map of salad-core: the map handed to the element's seed
\* for an entry
map_object(f, key, value) ==
    IF value.k = "map"
    THEN TMap(Append(value.es, Entry(f.map_key, TStr(key))))
    ELSE TMap(<< Entry(f.map_key, TStr(key)), Entry(f.map_predicate, value) >>)

\* MapVisitor::visit_map of salad-core: the while loop from entry i on; the
\* error is "field '{key}' requires a map or predicate value"
map_loop(f, es, i, entries, r, ord) ==
    IF i > Len(es)
    THEN Ok([v |-> "List", items |-> entries], r)
    ELSE IF es[i].val.k /= "map" /\ f.map_predicate = NoStr
    THEN [Err("field requires a map or predicate value", r)
             EXCEPT !.field = f.map_key]
    ELSE map_push(f, es, i, entries, ord,
                  decode(Schema[f.ty].elem,
                         map_object(f, es[i].key, es[i].val), r, ord))

\* MapDeserializeSeed of salad-core
decode_map(f, tree, r, ord) ==
    CASE tree.k = "map" -> map_loop(f, tree.es, 1, <<>>, r, ord)
      [] tree.k = "seq" -> seq_loop(Schema[f.ty].elem, tree.es, 1, <<>>, r, ord)
      [] OTHER -> Err("invalid type", r)

\* the declared field a key names, or none
HasField(d, key) == \E i \in 1..Len(d.fields) : d.fields[i].name = key
FieldOf(d, key) == d.fields[CHOOSE i \in 1..Len(d.fields) : d.fields[i].name = key]

\* one arm of match_fields, before the value: the sub-scope is pushed
field_scope(f, r) ==
    IF f.subscope /= NoStr THEN push_subscope(r, f.subscope) ELSE r

\* one arm of match_fields, after the value: the sub-scope is popped (the
\* `?` returns before the pop)
field_done(f, res) ==
    IF ~res.ok THEN res
    ELSE IF f.subscope /= NoStr
    THEN [res EXCEPT !.r = pop_parent_id(res.r)]
    ELSE res

\* one arm of match_fields: the value decoded by the field's seed
field_value(f, tree, r, ord) ==
    IF f.map_key /= NoStr
    THEN decode_map_or_seq(f, tree, r, ord)
    ELSE decode(f.ty, tree, r, ord)

\* one arm of match_fields
decode_field(f, tree, r, ord) ==
    field_done(f, field_value(f, tree, field_scope(f, r), ord))

\* the value of one entry: a declared field, or an extension decoded as Any
decode_entry(d, key, tree, r, ord) ==
    IF HasField(d, key)
    THEN decode_field(FieldOf(d, key), tree, r, ord)
    ELSE decode_any(tree, r)

\* the outcome of the checks: the map with the defaults put in, or the
\* error "the field `{literal}` is null", or the default's from_str has
\* failed and unreachable_unchecked() has been reached
checked(ok, err, field, struct_map) ==
    [ok |-> ok, err |-> err, field |-> field, struct_map |-> struct_map]

RECURSIVE check_field_values(_, _, _)

\* check_field_value_iter, the arm (_, Some(Lit::Str(value))): the default
\* parsed by the field's type
check_field_default(d, i, struct_map, parsed) ==
    IF parsed.ok
    THEN check_field_values(d, i + 1, (d.fields[i].name :> parsed.val) @@ struct_map)
    ELSE checked(FALSE, "unreachable_unchecked", d.fields[i].name, struct_map)

\* check_field_value_iter: defaults and mandatory fields, in declared order
check_field_values(d, i, struct_map) ==
    IF i > Len(d.fields)
    THEN checked(TRUE, "", NoStr, struct_map)
    ELSE IF d.fields[i].name \in DOMAIN struct_map
    THEN check_field_values(d, i + 1, struct_map)
    ELSE IF d.fields[i].default /= NoVal
    THEN check_field_default(d, i, struct_map,
                             from_str(d.fields[i].ty, d.fields[i].default.s))
    ELSE IF ~d.fields[i].optional
    THEN checked(FALSE, "field is null", d.fields[i].name, struct_map)
    ELSE check_field_values(d, i + 1, struct_map)

\* the end of visit_map: the record built of the checked fields, or the
\* error of a missing mandatory field
struct_build(ty, chk, r) ==
    IF chk.ok
    THEN Ok([v |-> "Record", ty |-> ty, fields |-> chk.struct_map], r)
    ELSE [Err(chk.err, r) EXCEPT !.field = chk.field]

\* generate_seed_de_impl, visit_map: the value of entry i has been decoded
\* to res; the insert, then the loop goes on
struct_insert(ty, es, i, struct_map, ord, res) ==
    IF ~res.ok THEN res
    ELSE struct_loop(ty, es, i + 1, (es[i].key :> res.val) @@ struct_map, res.r, ord)

\* generate_seed_de_impl, visit_map: the while loop from entry i on, then
\* the mandatory-field checks
struct_loop_keeps_last(ty, es, i, struct_map, r, ord) ==
    IF i > Len(es)
    THEN struct_build(ty, check_field_values(Schema[ty], 1, struct_map), r)
    ELSE struct_insert(ty, es, i, struct_map, ord,
                       decode_entry(Schema[ty], es[i].key, es[i].val, r, ord))
struct_loop(ty, es, i, struct_map, r, ord) ==
    IF i > Len(es)
    THEN struct_build(ty, check_field_values(Schema[ty], 1, struct_map), r)
    ELSE IF es[i].key \in DOMAIN struct_map
    THEN Err("duplicate field", r)
    ELSE struct_insert(ty, es, i, struct_map, ord,
                       decode_entry(Schema[ty], es[i].key, es[i].val, r, ord))

\* the state of the entry scan, as it stops
scan_state(ok, err, content_map, r, is_id_declared) ==
    [ok |-> ok, err |-> err, content_map |-> content_map, r |-> r,
     is_id_declared |-> is_id_declared]

\* generate_id_seed_de_impl, visit_map, first loop: the identifier entry i
\* has been resolved to g; the resolved identifier replaces the raw one
id_scan_resolved(ty, es, i, content_map, st, g) ==
    IF g.ok
    THEN id_scan_loop(ty, es, i + 1,
                      Append(content_map, Entry(es[i].key, TStr(g.ret))),
                      [r |-> g.r, is_id_declared |-> TRUE])
    ELSE scan_state(FALSE, "duplicate identifier", content_map, g.r,
                    st.is_id_declared)

\* generate_id_seed_de_impl, visit_map, first loop: the entry scan from
\* entry i on; content_map keeps the entries in insertion order
id_scan_loop(ty, es, i, content_map, st) ==
    IF i > Len(es)
    THEN scan_state(TRUE, "", content_map, st.r, st.is_id_declared)
    ELSE IF \E j \in 1..Len(content_map) : content_map[j].key = es[i].key
    THEN scan_state(FALSE, "duplicate field", content_map, st.r, st.is_id_declared)
    ELSE IF es[i].key = Schema[ty].id
    THEN IF es[i].val.k /= "str"
         THEN scan_state(FALSE, "invalid type", content_map, st.r, st.is_id_declared)
         ELSE id_scan_resolved(ty, es, i, content_map, st,
                               generate_id(st.r, es[i].val.s))
    ELSE id_scan_loop(ty, es, i + 1, Append(content_map, es[i]), st)

\* generate_id_seed_de_impl, visit_map, second loop: the value of entry i
\* has been decoded to res; the insert, then the loop goes on
id_fields_insert(ty, cm, i, struct_map, ord, res) ==
    IF ~res.ok THEN res
    ELSE id_fields_loop(ty, cm, i + 1, (cm[i].key :> res.val) @@ struct_map,
                        res.r, ord)

\* generate_id_seed_de_impl, visit_map, second loop: content_map in the
\* order `cm` its iteration yields, from entry i on
id_fields_loop(ty, cm, i, struct_map, r, ord) ==
    IF i > Len(cm)
    THEN Ok([v |-> "Record", ty |-> ty, fields |-> struct_map], r)
    ELSE id_fields_insert(ty, cm, i, struct_map, ord,
                          decode_entry(Schema[ty], cm[i].key, cm[i].val, r, ord))

\* generate_id_seed_de_impl, visit_map, after the second loop: the
\* mandatory-field checks, then the pop of the record's own identifier
id_struct_build_keeps_context(ty, is_id_declared, chk, r) ==
    IF chk.ok
    THEN Ok([v |-> "Record", ty |-> ty, fields |-> chk.struct_map], r)
    ELSE [Err(chk.err, r) EXCEPT !.field = chk.field]
id_struct_build(ty, is_id_declared, chk, r) ==
    IF chk.ok
    THEN Ok([v |-> "Record", ty |-> ty, fields |-> chk.struct_map],
            IF is_id_declared THEN pop_parent_id(r) ELSE r)
    ELSE [Err(chk.err, r) EXCEPT !.field = chk.field]

\* generate_id_seed_de_impl, visit_map, after the second loop
id_struct_finish(ty, is_id_declared, res) ==
    IF ~res.ok THEN res
    ELSE id_struct_build(ty, is_id_declared,
                         check_field_values(Schema[ty], 1, res.val.fields), res.r)

\* generate_id_seed_de_impl, visit_map, after the first loop
id_struct_fields(ty, ord, scan) ==
    IF ~scan.ok THEN Err(scan.err, scan.r)
    ELSE id_struct_finish(ty, scan.is_id_declared,
                          id_fields_loop(ty, InOrder(scan.content_map, ord), 1,
                                         <<>>, scan.r, ord))

\* generate_id_seed_de_impl: deserialize_map and visit_map
decode_id_struct_single_pass(ty, tree, r, ord) ==
    IF tree.k /= "map" THEN Err("invalid type", r)
    ELSE struct_loop(ty, tree.es, 1, <<>>, r, ord)
decode_id_struct(ty, tree, r, ord) ==
    IF tree.k /= "map" THEN Err("invalid type", r)
    ELSE id_struct_fields(ty, ord,
                          id_scan_loop(ty, tree.es, 1, <<>>,
                                       [r |-> r, is_id_declared |-> FALSE]))

\* generate_seed_de_impl: deserialize_map and visit_map
decode_struct(ty, tree, r, ord) ==
    IF tree.k /= "map" THEN Err("invalid type", r)
    ELSE struct_loop(ty, tree.es, 1, <<>>, r, ord)

\* a value of the union type ty holding variant number idx
Tagged(ty, idx, inner) ==
    [v |-> "Union", ty |-> ty, tag |-> Schema[ty].variants[idx], idx |-> idx,
     inner |-> inner]

\* tuples::generate_de_impl, the block of variant i, `self.0.extend(data)`
\* has given ext: Ok(variant) or the merge error
variant_merge(ty, i, dec, ext) ==
    [returned |-> TRUE, data |-> dec.r,
     res |-> IF ext.ok
             THEN Ok(Tagged(ty, i, dec.val), ext.r)
             ELSE Err("duplicate identifier", ext.r)]

\* tuples::generate_de_impl, the block of variant i, the variant's decode
\* on the clone has given dec: `if let Ok(v)` merges and returns, else the
\* block falls through and self.0 is as it was
variant_commit_returns_duplicates(ty, i, r, ord, dec) ==
    IF dec.ok
    THEN variant_merge(ty, i, dec, extend(r, dec.r, SetInOrder(dec.r.ids, ord)))
    ELSE [returned |-> dec.err = "duplicate identifier", data |-> dec.r,
          res |-> Err(dec.err, r)]
variant_commit(ty, i, r, ord, dec) ==
    IF dec.ok
    THEN variant_merge(ty, i, dec, extend(r, dec.r, SetInOrder(dec.r.ids, ord)))
    ELSE [returned |-> FALSE, data |-> dec.r, res |-> Err(dec.err, r)]

\* tuples::generate_de_impl: the block generated for variant number i.
\* returned = the block executed `return`; res is what it returned; data is
\* the cloned registry as the variant's decode left it; r is self.0 after.
variant_block_reversed(ty, i, tree, r, ord) ==
    variant_commit(ty, Len(Schema[ty].variants) + 1 - i, r, ord,
                   decode(Schema[ty].variants[Len(Schema[ty].variants) + 1 - i],
                          tree, clone(r), ord))

variant_block_keeps_failed_ids(ty, i, tree, r, ord) ==
    LET dec == decode(Schema[ty].variants[i], tree, r, ord)
    IN  IF dec.ok
        THEN [returned |-> TRUE, data |-> dec.r,
              res |-> Ok(Tagged(ty, i, dec.val), dec.r)]
        ELSE [returned |-> FALSE, data |-> dec.r, res |-> Err(dec.err, dec.r)]

variant_block_skips_on_merge_error(ty, i, tree, r, ord) ==
    LET dec == decode(Schema[ty].variants[i], tree, clone(r), ord)
        ext == extend(r, dec.r, SetInOrder(dec.r.ids, ord))
    IN  IF dec.ok /\ ext.ok
        THEN [returned |-> TRUE, data |-> dec.r,
              res |-> Ok(Tagged(ty, i, dec.val), ext.r)]
        ELSE [returned |-> FALSE, data |-> dec.r, res |-> Err(dec.err, r)]

variant_block_leaks_stack(ty, i, tree, r, ord) ==
    LET dec == decode(Schema[ty].variants[i], tree, clone(r), ord)
    IN  IF dec.ok
        THEN variant_merge(ty, i, dec, extend(r, dec.r, SetInOrder(dec.r.ids, ord)))
        ELSE [returned |-> FALSE, data |-> dec.r,
              res |-> Err(dec.err, [r EXCEPT !.parent_ids = dec.r.parent_ids])]

variant_block(ty, i, tree, r, ord) ==
    variant_commit(ty, i, r, ord, decode(Schema[ty].variants[i], tree, clone(r), ord))

\* tuples::generate_de_impl: block i has run; its `return`, or the blocks
\* after it
union_next(ty, tree, ord, i, b) ==
    IF b.returned THEN b.res
    ELSE decode_union_from(ty, tree, b.res.r, ord, i + 1)

\* tuples::generate_de_impl: the blocks from variant i on, then the final Err
decode_union_from_skips_last(ty, tree, r, ord, i) ==
    IF i > Len(Schema[ty].variants) \/ (i > 1 /\ i = Len(Schema[ty].variants))
    THEN no_variant(ty, r)
    ELSE union_next(ty, tree, ord, i, variant_block(ty, i, tree, r, ord))

decode_union_from(ty, tree, r, ord, i) ==
    IF i > Len(Schema[ty].variants)
    THEN no_variant(ty, r)
    ELSE union_next(ty, tree, ord, i, variant_block(ty, i, tree, r, ord))

\* a record's seed: with an identifier field the two-pass visitor, else the
\* one-pass visitor
decode_record(ty, tree, r, ord) ==
    IF Schema[ty].id /= NoStr
    THEN decode_id_struct(ty, tree, r, ord)
    ELSE decode_struct(ty, tree, r, ord)

\* IntoDeserializeSeed::into_dseed(data) followed by deserialize: the seed
\* of the type named ty
decode(ty, tree, r, ord) ==
    CASE Schema[ty].kind = "str" -> decode_str(tree, r)
      [] Schema[ty].kind = "any" -> decode_any(tree, r)
      [] Schema[ty].kind = "enum" -> decode_enum(ty, tree, r)
      [] Schema[ty].kind = "list" -> decode_one_or_more(Schema[ty].elem, tree, r, ord)
      [] Schema[ty].kind = "boxlist" -> decode_list(Schema[ty].elem, tree, r, ord)
      [] Schema[ty].kind = "record" -> decode_record(ty, tree, r, ord)
      [] Schema[ty].kind = "union" -> decode_union_from(ty, tree, r, ord, 1)

\* tuples::generate_root_de_impl: every variant on a fresh registry
RECURSIVE root_union_from(_, _, _, _)

\* tuples::generate_root_de_impl: variant i has been decoded to dec
root_union_next(ty, tree, ord, i, dec) ==
    IF dec.ok THEN Ok(Tagged(ty, i, dec.val), dec.r)
    ELSE root_union_from(ty, tree, ord, i + 1)

root_union_from(ty, tree, ord, i) ==
    IF i > Len(Schema[ty].variants)
    THEN no_variant(ty, new)
    ELSE root_union_next(ty, tree, ord, i,
                         decode(Schema[ty].variants[i], tree, new, ord))

\* Deserialize of a document root: CodeGen::__impl_deserialize for a
\* record, tuples::generate_root_de_impl for a union
deserialize_on_last_registry(ty, tree, ord) ==
    IF Schema[ty].kind = "union"
    THEN root_union_from(ty, tree, ord, 1)
    ELSE decode(ty, tree, reg, ord)
deserialize(ty, tree, ord) ==
    IF Schema[ty].kind = "union"
    THEN root_union_from(ty, tree, ord, 1)
    ELSE decode(ty, tree, new, ord)

(***************************************************************************)
(* Serialize: every impl hands the value it wraps to the serializer (a     *)
(* record its map, a union its variant's value, a unit its literal), so    *)
(* the encoding is the untagged tree of the value.                         *)
(***************************************************************************)
RECURSIVE serialize(_, _)
serialize_map(fields, keys, ord) ==
    TMap([i \in 1..Len(keys) |-> Entry(keys[i], serialize(fields[keys[i]], ord))])

serialize(val, ord) ==
    CASE val.v = "str" -> TStr(val.s)
      [] val.v = "String" -> TStr(val.s)
      [] val.v = "Bool" -> TBool(val.n = 1)
      [] val.v = "Int" -> TInt(val.n)
      [] val.v = "Long" -> TLong(val.hi, val.n)
      [] val.v \in {"Float", "Double"} -> TFloat(val.n)
      [] val.v = "Unit" -> TStr(to_string(val))
      [] val.v = "List" ->
            TSeq([i \in 1..Len(val.items) |-> serialize(val.items[i], ord)])
      [] val.v = "Union" -> serialize(val.inner, ord)
      [] val.v \in {"Record", "Object"} ->
            serialize_map(val.fields, SetInOrder(DOMAIN val.fields, ord), ord)

(***************************************************************************)
(* Downcast of a stored Any value: SaladAnyDeserializer answers the typed   *)
(* request of the target type's Deserialize by a call of the visitor or by *)
(* a SaladDowncastError.                                                   *)
(***************************************************************************)
\* crate::util::INT_RANGE and FLOAT_RANGE: the 64-bit values an i32 / f32 holds
INT_RANGE(x) == Le64(FromI32(I32_MIN), x) /\ Le64(x, FromI32(I32_MAX))
FLOAT_RANGE(e) == e <= F32_MAX_EXP10

\* the 64-bit integer of an Int or Long variant
AsI64(any) == IF any.v = "Int" THEN FromI32(any.n) ELSE I64(any.hi, any.n)

\* visitor.visit_xxx(value)
Visit(method, any) == [ok |-> TRUE, visit |-> method, any |-> any, err |-> ""]
\* Err(de::Error::invalid_type(unexpected, ERR_MSG))
DowncastError(any) == [ok |-> FALSE, visit |-> "", any |-> any, err |-> "could not downcast"]

\* the typed requests with a body of their own
Requests == {"bool", "i32", "i64", "f32", "f64", "str", "map", "seq"}

\* SaladAnyDeserializer::deserialize_{bool, i32, i64, f32, f64, str, map, seq}
deserialize_request_truncates(kind, any) ==
    CASE kind = "bool" ->
            IF any.v = "Bool" THEN Visit("visit_bool", any)
            ELSE IF any.v \in {"Int", "Long"} /\ AsI64(any) = I64(0, 1)
            THEN Visit("visit_bool", [v |-> "Bool", n |-> 1])
            ELSE IF any.v \in {"Int", "Long"} /\ AsI64(any) = I64(0, 0)
            THEN Visit("visit_bool", [v |-> "Bool", n |-> 0])
            ELSE DowncastError(any)
      [] kind = "i32" ->
            IF any.v = "Int" THEN Visit("visit_i32", any)
            ELSE IF any.v = "Long"
            THEN Visit("visit_i32", [v |-> "Int", n |-> any.n])
            ELSE DowncastError(any)
      [] kind = "i64" ->
            IF any.v = "Long" THEN Visit("visit_i64", any)
            ELSE IF any.v = "Int"
            THEN Visit("visit_i64", [v |-> "Long", hi |-> AsI64(any).hi, n |-> AsI64(any).lo])
            ELSE DowncastError(any)
      [] kind = "f32" ->
            IF any.v = "Float" THEN Visit("visit_f32", any)
            ELSE IF any.v = "Double" /\ FLOAT_RANGE(any.n)
            THEN Visit("visit_f32", [v |-> "Float", n |-> any.n])
            ELSE DowncastError(any)
      [] kind = "f64" ->
            IF any.v = "Double" THEN Visit("visit_f64", any)
            ELSE IF any.v = "Float"
            THEN Visit("visit_f64", [v |-> "Double", n |-> any.n])
            ELSE DowncastError(any)
      [] kind = "str" ->
            IF any.v = "String" THEN Visit("visit_str", any) ELSE DowncastError(any)
      [] kind = "map" ->
            IF any.v = "Object" THEN Visit("visit_map", any) ELSE DowncastError(any)
      [] kind = "seq" ->
            IF any.v = "List" THEN Visit("visit_seq", any) ELSE DowncastError(any)

deserialize_request(kind, any) ==
    CASE kind = "bool" ->
            IF any.v = "Bool" THEN Visit("visit_bool", any)
            ELSE IF any.v \in {"Int", "Long"} /\ AsI64(any) = I64(0, 1)
            THEN Visit("visit_bool", [v |-> "Bool", n |-> 1])
            ELSE IF any.v \in {"Int", "Long"} /\ AsI64(any) = I64(0, 0)
            THEN Visit("visit_bool", [v |-> "Bool", n |-> 0])
            ELSE DowncastError(any)
      [] kind = "i32" ->
            IF any.v = "Int" THEN Visit("visit_i32", any)
            ELSE IF any.v = "Long" /\ INT_RANGE(AsI64(any))
            THEN Visit("visit_i32", [v |-> "Int", n |-> AsI32(AsI64(any))])
            ELSE DowncastError(any)
      [] kind = "i64" ->
            IF any.v = "Long" THEN Visit("visit_i64", any)
            ELSE IF any.v = "Int"
            THEN Visit("visit_i64", [v |-> "Long", hi |-> AsI64(any).hi, n |-> AsI64(any).lo])
            ELSE DowncastError(any)
      [] kind = "f32" ->
            IF any.v = "Float" THEN Visit("visit_f32", any)
            ELSE IF any.v = "Double" /\ FLOAT_RANGE(any.n)
            THEN Visit("visit_f32", [v |-> "Float", n |-> any.n])
            ELSE DowncastError(any)
      [] kind = "f64" ->
            IF any.v = "Double" THEN Visit("visit_f64", any)
            ELSE IF any.v = "Float"
            THEN Visit("visit_f64", [v |-> "Double", n |-> any.n])
            ELSE DowncastError(any)
      [] kind = "str" ->
            IF any.v = "String" THEN Visit("visit_str", any) ELSE DowncastError(any)
      [] kind = "map" ->
            IF any.v = "Object" THEN Visit("visit_map", any) ELSE DowncastError(any)
      [] kind = "seq" ->
            IF any.v = "List" THEN Visit("visit_seq", any) ELSE DowncastError(any)

(***************************************************************************)
(* Inputs of the registry operations.                                      *)
(***************************************************************************)
\* raw identifiers: relative, rooted by '#', with ':' or an inner '#'
RawIds ==
    { <<"m">>, <<"s">>, <<"#", "s">>, <<"#">>, <<"m", ":", "s">>,
      <<"m", "#", "s">>, <<"#", "m", ":", "s">> }

\* names of #[salad(subscope = "...")]
SubscopeNames == { <<"w">> }

NoReg == [ids |-> {}, parent_ids |-> <<>>]
NoLast ==
    [op |-> "none", target |-> "none", arg |-> <<>>, ok |-> TRUE, ret |-> <<>>,
     pre |-> NoReg, other_live |-> FALSE, other_pre |-> NoReg]
NoRes ==
    [ok |-> FALSE, err |-> "", enum |-> "", field |-> NoStr, expected |-> <<>>,
     val |-> NoVal, r |-> NoReg]
NoSeed == [gen |-> "", f |-> Field(NoStr, "", TRUE)]
NoUnion ==
    [state |-> "Idle", ty |-> "", tree |-> TNull, ord |-> "fwd", i |-> 0,
     tried |-> <<>>, pre |-> NoReg, datas |-> <<>>, res |-> NoRes]
NoBind ==
    [phase |-> "none", root |-> "", shape |-> "", a |-> <<>>, b |-> <<>>,
     ord |-> "fwd", doc |-> TNull, pre |-> NoReg, res |-> NoRes,
     seed |-> NoSeed, again |-> NoRes,
     cast |-> [any |-> NoVal, kind |-> "", res |-> NoVal]]

(***************************************************************************)
(* The registry exercised on its own: one registry `reg` (SeedData::new),  *)
(* and at most one clone of it, `fork`.                                    *)
(***************************************************************************)
Target(t) == IF t = "reg" THEN reg ELSE fork.r
Live(t) == t = "reg" \/ fork.live
Other(t) == IF t = "reg" THEN fork.r ELSE reg
OtherLive(t) == IF t = "reg" THEN fork.live ELSE TRUE

SetTarget(t, r) ==
    /\ reg' = IF t = "reg" THEN r ELSE reg
    /\ fork' = IF t = "fork" THEN [fork EXCEPT !.r = r] ELSE fork

Record(op, t, arg, ok, ret) ==
    /\ nops < MaxOps
    /\ nops' = nops + 1
    /\ last' = [op |-> op, target |-> t, arg |-> arg, ok |-> ok, ret |-> ret,
                pre |-> Target(t), other_live |-> OtherLive(t), other_pre |-> Other(t)]

GenerateId(t, id) ==
    /\ Live(t)
    /\ LET res == generate_id(Target(t), id)
       IN  /\ SetTarget(t, res.r)
           /\ Record("generate_id", t, id, res.ok, res.ret)
    /\ UNCHANGED <<un, bind>>

PushSubscope(t, subscope) ==
    /\ Live(t)
    /\ SetTarget(t, push_subscope(Target(t), subscope))
    /\ Record("push_subscope", t, subscope, TRUE, <<>>)
    /\ UNCHANGED <<un, bind>>

PopParentId(t) ==
    /\ Live(t)
    /\ SetTarget(t, pop_parent_id(Target(t)))
    /\ Record("pop_parent_id", t, <<>>, TRUE, <<>>)
    /\ UNCHANGED <<un, bind>>

Clone ==
    /\ ~fork.live
    /\ fork' = [live |-> TRUE, r |-> clone(reg)]
    /\ Record("clone", "reg", <<>>, TRUE, <<>>)
    /\ UNCHANGED <<reg, un, bind>>

\* reg.extend(fork): the clone is consumed
Extend ==
    /\ fork.live
    /\ \E order \in IterOrders(fork.r.ids) :
         LET res == extend(reg, fork.r, order)
         IN  /\ reg' = res.r
             /\ Record("extend", "reg", <<>>, res.ok, res.ret)
    /\ fork' = [live |-> FALSE, r |-> NoReg]
    /\ UNCHANGED <<un, bind>>

Init ==
    /\ reg = new
    /\ fork = [live |-> FALSE, r |-> NoReg]
    /\ last = NoLast
    /\ nops = 0
    /\ un = NoUnion
    /\ bind = NoBind

Next ==
    \/ \E t \in {"reg", "fork"}, id \in RawIds : GenerateId(t, id)
    \/ \E t \in {"reg", "fork"}, s \in SubscopeNames : PushSubscope(t, s)
    \/ \E t \in {"reg", "fork"} : PopParentId(t)
    \/ Clone
    \/ Extend

Spec == Init /\ [][Next]_vars

(***************************************************************************)
(* Claims about the registry on its own, checked under Spec.  `last` holds *)
(* the last operation: its argument, its result, the registry it ran on    *)
(* before the call (pre) and the other registry before the call.           *)
(***************************************************************************)
After == Target(last.target)
Slash == <<"/">>

\* C4: generate_id on a raw id with neither '#' nor ':' resolves to
\* parent + "/" + raw under a parent context (raw verbatim on an empty
\* stack) and, on success, pushes raw alone as the new stack top.
C4_RelativeIdJoinsParentPushesRaw ==
    (last.op = "generate_id" /\ \A i \in 1..Len(last.arg) : last.arg[i] \notin {"#", ":"})
    => /\ last.pre.parent_ids /= <<>>
            => last.ret = last.pre.parent_ids[Len(last.pre.parent_ids)] \o Slash \o last.arg
       /\ last.pre.parent_ids = <<>> => last.ret = last.arg
       /\ last.ok => After.parent_ids = last.pre.parent_ids \o <<last.arg>>

C4_Witness ==
    /\ last.op = "generate_id" /\ last.ok
    /\ last.arg = <<"s">>
    /\ last.pre.parent_ids = << <<"m">> >>
    /\ last.ret = <<"m", "/", "s">>
    /\ After.parent_ids = << <<"m">>, <<"s">> >>

\* C5: generate_id on a raw id starting with '#' resolves to the remainder
\* after the '#' whatever the context stack holds, and on success pushes
\* that remainder as the new parent context.
C5_HashPrefixIsRooted ==
    (last.op = "generate_id" /\ Len(last.arg) > 0 /\ last.arg[1] = "#")
    => /\ last.ret = SubSeq(last.arg, 2, Len(last.arg))
       /\ last.ok => After.parent_ids
                        = last.pre.parent_ids \o <<SubSeq(last.arg, 2, Len(last.arg))>>

C5_Witness ==
    /\ last.op = "generate_id" /\ last.ok
    /\ last.arg = <<"#", "s">>
    /\ last.pre.parent_ids = << <<"m">> >>
    /\ last.ret = <<"s">>
    /\ After.parent_ids = << <<"m">>, <<"s">> >>

\* C6: generate_id on a raw id that does not start with '#' but contains
\* '#' or ':' uses the raw string with every ':' replaced by '#' as the
\* absolute id and as the pushed context, independently of the stack; the
\* leading-'#' rule is checked before it (a ':' after a leading '#' stays).
Colon2Hash(s) == [i \in 1..Len(s) |-> IF s[i] = ":" THEN "#" ELSE s[i]]

C6_ColonOrHashIsNormalized ==
    last.op = "generate_id"
    => /\ (last.arg[1] /= "#" /\ \E i \in 1..Len(last.arg) : last.arg[i] \in {"#", ":"})
            => /\ last.ret = Colon2Hash(last.arg)
               /\ last.ok => After.parent_ids
                               = last.pre.parent_ids \o <<Colon2Hash(last.arg)>>
       /\ (Len(last.arg) > 0 /\ last.arg[1] = "#")
            => last.ret = SubSeq(last.arg, 2, Len(last.arg))

C6_Witness ==
    /\ last.op = "generate_id" /\ last.ok
    /\ last.arg = <<"m", ":", "s">>
    /\ last.pre.parent_ids /= <<>>
    /\ last.ret = <<"m", "#", "s">>
    /\ After.parent_ids = last.pre.parent_ids \o << <<"m", "#", "s">> >>

\* C7: generate_id fails exactly when the absolute id is already in the
\* uniqueness set, and then leaves the registry unchanged (no insert, no
\* push); on success exactly one id is inserted and one context pushed.
C7_DuplicateLeavesRegistryUnchanged ==
    last.op = "generate_id"
    => /\ last.ok <=> last.ret \notin last.pre.ids
       /\ ~last.ok => After = last.pre
       /\ last.ok => /\ After.ids = last.pre.ids \cup {last.ret}
                     /\ Cardinality(After.ids) = Cardinality(last.pre.ids) + 1
                     /\ Len(After.parent_ids) = Len(last.pre.parent_ids) + 1
                     /\ SubSeq(After.parent_ids, 1, Len(last.pre.parent_ids))
                            = last.pre.parent_ids

C7_Witness ==
    /\ last.op = "generate_id" /\ ~last.ok
    /\ last.ret \in last.pre.ids
    /\ last.pre.parent_ids /= <<>>
    /\ After = last.pre

\* C8: a clone has an empty uniqueness set and the original's stack at the
\* time of the clone; generate_id, push_subscope and pop_parent_id on either
\* registry leave the other one unchanged.
C8_CloneIsEmptyAndIndependent ==
    /\ last.op = "clone"
         => /\ fork.live
            /\ fork.r.ids = {}
            /\ fork.r.parent_ids = reg.parent_ids
            /\ reg = last.pre
    /\ (last.op \in {"generate_id", "push_subscope", "pop_parent_id"} /\ last.other_live)
         => /\ fork.live
            /\ Other(last.target) = last.other_pre

C8_Witness ==
    /\ last.op = "generate_id" /\ last.ok /\ last.target = "fork"
    /\ reg.ids /= {} /\ reg.parent_ids /= <<>>
    /\ fork.r.ids = {last.ret}
    /\ last.ret \notin reg.ids
    /\ fork.r.parent_ids = reg.parent_ids \o <<last.ret>>

\* C9: extend succeeds exactly when the two uniqueness sets are disjoint,
\* and then the receiver holds the union; the receiver's stack is unchanged;
\* when the sets share an id the error names a shared id.
C9_ExtendMergesDisjointSets ==
    last.op = "extend"
    => /\ last.ok <=> last.pre.ids \cap last.other_pre.ids = {}
       /\ last.ok => reg.ids = last.pre.ids \cup last.other_pre.ids
       /\ ~last.ok => last.ret \in last.pre.ids \cap last.other_pre.ids
       /\ reg.parent_ids = last.pre.parent_ids
       /\ ~fork.live

C9_Witness ==
    /\ last.op = "extend" /\ last.ok
    /\ last.pre.ids /= {} /\ last.other_pre.ids /= {}
    /\ last.other_pre.parent_ids /= last.pre.parent_ids
    /\ reg.ids = last.pre.ids \cup last.other_pre.ids

(***************************************************************************)
(* Binding a whole document: Deserialize of a root type on a raw tree.     *)
(* The documents hold two records, with the raw identifiers a and b, at    *)
(* the same scope (under the root record whose identifier is "m").         *)
(***************************************************************************)
IdRecord(id) == TMap(<< Entry(K_id, TStr(id)) >>)

Shapes ==
    {"list", "one_and_list", "union_fields", "list_of_union", "map_or_seq",
     "nested_union"}

DocOf(shape, a, b) ==
    LET root_id == Entry(K_id, TStr(<<"m">>))
    IN  CASE shape = "list" ->
                TMap(<< root_id, Entry(K_steps, TSeq(<< IdRecord(a), IdRecord(b) >>)) >>)
          [] shape = "one_and_list" ->
                TMap(<< root_id, Entry(K_steps, IdRecord(a)),
                        Entry(K_us, TSeq(<< IdRecord(b) >>)) >>)
          [] shape = "union_fields" ->
                TMap(<< root_id, Entry(K_u1, IdRecord(a)), Entry(K_u2, IdRecord(b)) >>)
          [] shape = "list_of_union" ->
                TMap(<< root_id, Entry(K_us, TSeq(<< IdRecord(a), IdRecord(b) >>)) >>)
          [] shape = "map_or_seq" ->
                TMap(<< root_id,
                        Entry(K_jobs, TMap(<< Entry(a, TMap(<<>>)),
                                              Entry(b, TMap(<<>>)) >>)) >>)
          [] shape = "nested_union" ->
                TMap(<< root_id,
                        Entry(K_alt,
                              TMap(<< Entry(K_id, TStr(<<"n">>)),
                                      Entry(K_steps,
                                            TSeq(<< IdRecord(a), IdRecord(b) >>)) >>)) >>)

RootTypes == {"W", "WOrStr"}

BindInit ==
    /\ reg = new
    /\ fork = [live |-> FALSE, r |-> NoReg]
    /\ last = NoLast
    /\ nops = 0
    /\ un = NoUnion
    /\ bind = [NoBind EXCEPT !.phase = "ready"]

\* one top-level decode of a document
Bind(root, shape, a, b, ord) ==
    /\ bind.phase = "ready"
    /\ bind' = [phase |-> "done", root |-> root, shape |-> shape, a |-> a, b |-> b,
                ord |-> ord, doc |-> DocOf(shape, a, b), pre |-> new,
                res |-> deserialize(root, DocOf(shape, a, b), ord),
                seed |-> NoSeed, again |-> NoRes, cast |-> NoBind.cast]
    /\ UNCHANGED <<reg, fork, last, nops, un>>

\* the bound value is written by its Serialize impls (the record's map,
\* entry by entry in the iteration order `ord` of the HashMap) and the
\* encoding is bound again by a second top-level decode
Rebind(ord) ==
    /\ bind.phase = "done" /\ bind.res.ok
    /\ bind' = [bind EXCEPT !.phase = "rebound",
                            !.again = deserialize(bind.root,
                                                  serialize(bind.res.val, ord),
                                                  bind.ord)]
    /\ UNCHANGED <<reg, fork, last, nops, un>>

BindNext ==
    \/ \E root \in RootTypes, shape \in Shapes, a \in RawIds, b \in RawIds, ord \in Orders :
          Bind(root, shape, a, b, ord)
    \/ \E ord \in Orders : Rebind(ord)

BindSpec == BindInit /\ [][BindNext]_vars

\* C3: binding a document in which two records declare the same raw
\* identifier at the same scope fails with a duplicate-identifier error,
\* whatever shape the document has.
C3_DuplicateRawIdsFail ==
    (bind.phase = "done" /\ bind.a = bind.b)
    => (~bind.res.ok /\ bind.res.err = "duplicate identifier")

\* what the code does keep: under the root record, the duplicate is reported
\* unless a union with a later variant encloses the two records
C3_DuplicateRawIdsFailOutsideUnions ==
    (bind.phase = "done" /\ bind.a = bind.b /\ bind.root = "W"
        /\ bind.shape /= "nested_union")
    => (~bind.res.ok /\ bind.res.err = "duplicate identifier")

C3_SwallowedByUnion ==
    /\ bind.phase = "done" /\ bind.a = bind.b /\ bind.root = "W"
    /\ bind.shape = "nested_union"
    /\ bind.res.ok
    /\ bind.res.val.fields[K_alt].tag = "Any"

(***************************************************************************)
(* A union decode on the enclosing registry `reg` (self.0 of the generated *)
(* DeserializeSeed).  The registry is first brought to some state by the   *)
(* enclosing decode (identifiers of sibling fields, sub-scopes); then the  *)
(* content is buffered (Pending) and the variants' blocks run one by one.  *)
(***************************************************************************)
UnionIds == { <<"m">>, <<"s">>, <<"#", "s">> }

V == TStr(<<"v">>)

UnionTrees ==
    \* decoded by A and by B
    { TMap(<< Entry(K_id, TStr(a)), Entry(K_x, V) >>) : a \in UnionIds }
    \* A registers a, then misses its mandatory field; B decodes it
    \cup { TMap(<< Entry(K_id, TStr(a)) >>) : a \in UnionIds }
    \* A registers a and the nested b, then misses its mandatory field
    \cup { TMap(<< Entry(K_id, TStr(a)),
                   Entry(K_steps, TSeq(<< IdRecord(b) >>)) >>) : a, b \in UnionIds }
    \* A registers a and the nested b and succeeds
    \cup { TMap(<< Entry(K_steps, TSeq(<< IdRecord(b) >>)), Entry(K_x, V),
                   Entry(K_id, TStr(a)) >>) : a, b \in UnionIds }
    \* a key twice
    \cup { TMap(<< Entry(K_id, TStr(<<"m">>)), Entry(K_x, V), Entry(K_x, V) >>) }
    \* no identifier at all
    \cup { TMap(<< Entry(K_x, V) >>), V }

UnionTypes == {"AB", "BA", "AP", "StepOrStr", "SubOrAny", "ABAny"}

UnionInit ==
    /\ reg = new
    /\ fork = [live |-> FALSE, r |-> NoReg]
    /\ last = NoLast
    /\ nops = 0
    /\ un = NoUnion
    /\ bind = NoBind

\* the deserializer's content is buffered
UnionStart(ty, tree, ord) ==
    /\ un.state = "Idle"
    /\ un' = [NoUnion EXCEPT !.state = "Pending", !.ty = ty, !.tree = tree,
                             !.ord = ord, !.pre = reg]
    /\ UNCHANGED <<reg, fork, last, nops, bind>>

\* the first variant's block is entered
UnionBegin ==
    /\ un.state = "Pending"
    /\ un' = [un EXCEPT !.state = "Trying", !.i = 1]
    /\ UNCHANGED <<reg, fork, last, nops, bind>>

\* the block of variant un.i has run with outcome b: the seed's registry
\* and the position in the sequence of blocks after it
UnionTried(b) ==
    /\ reg' = b.res.r
    /\ un' = [un EXCEPT
                !.tried = Append(@, un.i),
                !.datas = Append(@, b.data),
                !.state = IF b.returned
                          THEN IF b.res.ok THEN "Committed" ELSE "MergeFailed"
                          ELSE IF un.i < Len(Schema[un.ty].variants)
                          THEN "Trying" ELSE "Exhausted",
                !.i = IF ~b.returned /\ un.i < Len(Schema[un.ty].variants)
                      THEN un.i + 1 ELSE un.i,
                !.res = IF b.returned THEN b.res
                        ELSE IF un.i < Len(Schema[un.ty].variants) THEN NoRes
                        ELSE no_variant(un.ty, b.res.r)]

\* the block of variant un.i runs: return with the value or with the merge
\* error, or fall through to the next block, or to the final Err
UnionTry ==
    /\ un.state = "Trying"
    /\ UnionTried(variant_block(un.ty, un.i, un.tree, reg, un.ord))
    /\ UNCHANGED <<fork, last, nops, bind>>

UnionNext ==
    \/ \E id \in UnionIds :
          un.state = "Idle" /\ nops < MaxSetup /\ GenerateId("reg", id)
    \/ \E s \in SubscopeNames :
          un.state = "Idle" /\ nops < MaxSetup /\ PushSubscope("reg", s)
    \/ un.state = "Idle" /\ nops < MaxSetup /\ PopParentId("reg")
    \/ \E ty \in UnionTypes, tree \in UnionTrees, ord \in Orders : UnionStart(ty, tree, ord)
    \/ UnionBegin
    \/ UnionTry

UnionSpec == UnionInit /\ [][UnionNext]_vars

\* the variants of the union being decoded, and whether variant j decodes
\* the buffered content on a clone of the enclosing registry
Variants == Schema[un.ty].variants
Decodes(j) == decode(Variants[j], un.tree, clone(un.pre), un.ord).ok
Returned == un.state \in {"Committed", "MergeFailed", "Exhausted"}

\* C1: union resolution picks the first variant in declared order whose
\* decode succeeds: every variant tried before the chosen one failed, the
\* variants are tried in declared order, none is tried after a success, and
\* a tree both A and B decode is tagged A by [A, B] and B by [B, A].
C1_FirstDecodableVariantWins ==
    /\ un.tried = [j \in 1..Len(un.tried) |-> j]
    /\ \A j \in 1..Len(un.tried) : j < Len(un.tried) => ~Decodes(j)
    /\ un.state = "Committed"
         => /\ un.res.ok
            /\ un.res.val.tag = Variants[Len(un.tried)]
            /\ Decodes(Len(un.tried))
    /\ (un.state = "Committed" /\ Decodes(1)) => un.res.val.tag = Variants[1]
    /\ (un.state = "Committed" /\ un.ty = "AB" /\ Decodes(1) /\ Decodes(2))
         => un.res.val.tag = "A"
    /\ (un.state = "Committed" /\ un.ty = "BA" /\ Decodes(1) /\ Decodes(2))
         => un.res.val.tag = "B"

C1_Witness ==
    /\ un.state = "Committed" /\ un.ty = "BA"
    /\ Decodes(1) /\ Decodes(2)
    /\ decode("A", un.tree, clone(un.pre), un.ord).ok
    /\ decode("B", un.tree, clone(un.pre), un.ord).ok
    /\ un.res.val.tag = "B"
    /\ un.tried = <<1>>

\* C2: when a variant registered identifiers in its clone and failed, and a
\* later variant is committed, the enclosing uniqueness set is its content
\* before the union decode plus the identifiers of the committed variant;
\* no identifier registered only by a failed variant is in it, whatever the
\* outcome of the union decode.
C2_FailedVariantIdsAreRolledBack ==
    /\ un.state = "Committed"
         => reg.ids = un.pre.ids \cup un.datas[Len(un.datas)].ids
    /\ \A j \in 1..Len(un.datas) :
         (j < Len(un.datas) \/ un.state \in {"Trying", "Exhausted"})
         => \A id \in un.datas[j].ids :
              id \in reg.ids
              => \/ id \in un.pre.ids
                 \/ /\ un.state \in {"Committed", "MergeFailed"}
                    /\ id \in un.datas[Len(un.datas)].ids
    /\ un.state \in {"Pending", "Trying", "Exhausted"} => reg.ids = un.pre.ids

C2_Witness ==
    /\ un.state = "Committed"
    /\ Len(un.datas) = 2
    /\ un.pre.ids /= {}
    /\ un.datas[2].ids /= {}
    /\ \E id \in un.datas[1].ids : id \notin reg.ids
    /\ reg.ids = un.pre.ids \cup un.datas[2].ids

\* C10: when a variant decodes but the merge of its clone into the
\* enclosing registry fails, the union decode returns the
\* duplicate-identifier error and no further variant is tried; when the
\* merge succeeds, the decoded value tagged with that variant is returned.
C10_MergeFailureIsReturned ==
    /\ un.state = "MergeFailed"
         => /\ ~un.res.ok
            /\ un.res.err = "duplicate identifier"
            /\ Decodes(Len(un.tried))
            /\ un.datas[Len(un.datas)].ids \cap un.pre.ids /= {}
            /\ ~ENABLED UnionTry
    /\ un.state = "Committed"
         => /\ un.res.ok
            /\ un.res.val.tag = Variants[Len(un.tried)]
            /\ un.res.val.inner
                 = decode(Variants[Len(un.tried)], un.tree, clone(un.pre), un.ord).val
            /\ un.datas[Len(un.datas)].ids \cap un.pre.ids = {}
            /\ ~ENABLED UnionTry
    /\ (Returned /\ Len(un.tried) > 0 /\ Decodes(Len(un.tried)))
         => un.state \in {"Committed", "MergeFailed"}
    /\ (un.state = "Trying" /\ Len(un.tried) > 0) => ~Decodes(Len(un.tried))

C10_Witness ==
    /\ un.state = "MergeFailed"
    /\ un.tried = <<1>>
    /\ Len(Variants) = 2
    /\ Decodes(1) /\ Decodes(2)
    /\ un.res.err = "duplicate identifier"

\* C11: a union decode fails with the no-variant error, which names the
\* union's own type, exactly when every variant has been tried, in declared
\* order, and each failed; the decode goes Pending, Trying(1), ..., Trying(n)
\* and then Exhausted; Committed is entered from one Trying(i) only and the
\* value is tagged i; the outcome is that of the seed's deserialize.
C11_Exhausted ==
    /\ ~un.res.ok
    /\ un.res.err = "data did not match any variant of enum"
    /\ un.res.enum = un.ty

C11_AllTriedAndFailed ==
    /\ un.tried = [j \in 1..Len(Variants) |-> j]
    /\ \A j \in 1..Len(Variants) : ~Decodes(j)

C11_States ==
    /\ un.state \in {"Idle", "Pending", "Trying", "Committed", "MergeFailed", "Exhausted"}
    /\ un.state = "Exhausted" <=> (Returned /\ C11_Exhausted)
    /\ Returned => (C11_Exhausted <=> C11_AllTriedAndFailed)
    /\ un.state = "Trying" => /\ un.i \in 1..Len(Variants)
                              /\ un.tried = [j \in 1..(un.i - 1) |-> j]
    /\ Returned
         => decode(un.ty, un.tree, un.pre, un.ord) = [un.res EXCEPT !.r = reg]

C11_Steps ==
    /\ un.state = "Pending" => (un'.state = "Trying" /\ un'.i = 1)
    /\ un.state = "Trying"
         => \/ un'.state = "Trying" /\ un'.i = un.i + 1
            \/ un'.state \in {"Committed", "MergeFailed"} /\ un'.i = un.i
            \/ un'.state = "Exhausted" /\ un.i = Len(Variants)
    /\ un'.state = "Committed"
         => /\ un.state = "Trying"
            /\ un'.res.val.idx = un.i
            /\ un'.tried = Append(un.tried, un.i)
    /\ un'.state = "Exhausted" => (un.state = "Trying" /\ un.i = Len(Variants))

C11_UnionStateSequence == []C11_States /\ [][C11_Steps]_vars

C11_Witness ==
    /\ un.state = "Exhausted"
    /\ un.tried = <<1, 2>>
    /\ un.datas[1].ids /= {}
    /\ C11_Exhausted

(***************************************************************************)
(* One decode by the seed of a type, on the registry `reg` the enclosing   *)
(* decode has brought to some state: into_dseed(&data) and deserialize.    *)
(***************************************************************************)
V2 == TStr(<<"u">>)

DecodeIds == { <<"m">>, <<"#", "s">> }

\* mappings handed to the seed of a record with an identifier field
IdRecordTrees ==
    UNION { { TMap(<< Entry(K_id, TStr(a)), Entry(K_x, V) >>),
              TMap(<< Entry(K_id, TStr(a)) >>),
              TMap(<< Entry(K_id, TStr(a)), Entry(K_x, V), Entry(K_x, V2) >>),
              TMap(<< Entry(K_id, TStr(a)), Entry(K_x, V), Entry(K_id, TStr(a)) >>),
              TMap(<< Entry(K_id, TStr(a)), Entry(K_x, V), Entry(K_ext, V),
                      Entry(K_ext, V2) >>),
              TMap(<< Entry(K_ext, V), Entry(K_ext, V2), Entry(K_id, TStr(a)),
                      Entry(K_x, V) >>),
              TMap(<< Entry(K_id, TStr(a)), Entry(K_ext, V2), Entry(K_x, V) >>),
              TMap(<< Entry(K_id, TStr(a)), Entry(K_x, V),
                      Entry(K_steps, TSeq(<< IdRecord(<<"s">>), IdRecord(a) >>)) >>),
              TMap(<< Entry(K_steps, TSeq(<< IdRecord(<<"s">>), IdRecord(<<"s">>) >>)),
                      Entry(K_x, V), Entry(K_id, TStr(a)) >>),
              TMap(<< Entry(K_steps, TSeq(<< IdRecord(<<"s">>) >>)), Entry(K_x, V),
                      Entry(K_id, TStr(a)) >>),
              TMap(<< Entry(K_x, TInt(7)), Entry(K_steps, TSeq(<< IdRecord(<<"s">>) >>)),
                      Entry(K_id, TStr(a)) >>) } : a \in DecodeIds }
    \cup { TMap(<< Entry(K_x, V) >>), V,
           TMap(<< Entry(K_id, TInt(7)), Entry(K_x, V), Entry(K_x, V2) >>) }

\* mappings handed to the seed of a record without identifier field
PlainRecordTrees ==
    { TMap(<< Entry(K_x, V) >>),
      TMap(<< >>),
      TMap(<< Entry(K_x, V), Entry(K_x, V2) >>),
      TMap(<< Entry(K_x, V), Entry(K_ext, V), Entry(K_ext, V2) >>),
      TMap(<< Entry(K_ext, V2), Entry(K_x, V) >>),
      TMap(<< Entry(K_x, V), Entry(K_in, TSeq(<< IdRecord(<<"s">>) >>)) >>),
      TMap(<< Entry(K_in, TSeq(<< IdRecord(<<"s">>) >>)) >>),
      TMap(<< Entry(K_in, TSeq(<< IdRecord(<<"s">>), IdRecord(<<"s">>) >>)),
              Entry(K_x, V) >>),
      TMap(<< Entry(K_ext, TNull), Entry(K_x, V), Entry(K_x, V2) >>),
      TMap(<< Entry(K_x, V), Entry(K_x, V2), Entry(K_ext, TNull) >>),
      V }

\* mappings handed to the seeds of the records with defaults
DefaultTrees ==
    { TMap(<< >>),
      TMap(<< Entry(K_class, V) >>),
      TMap(<< Entry(K_class, V), Entry(K_x, V2) >>),
      TMap(<< Entry(K_class, V), Entry(K_mode, TStr(L_a)) >>),
      TMap(<< Entry(K_mode, TStr(L_a)), Entry(K_x, V), Entry(K_y, V2),
              Entry(K_class, V) >>),
      TMap(<< Entry(K_class, V), Entry(K_mode, TStr(<<"z">>)) >>),
      TMap(<< Entry(K_x, V2), Entry(K_mode, TStr(L_A)) >>),
      TMap(<< Entry(K_id, TStr(<<"m">>)), Entry(K_class, V), Entry(K_x, V) >>),
      TMap(<< Entry(K_id, TStr(<<"m">>)), Entry(K_x, V), Entry(K_class, V),
              Entry(K_mode, TStr(L_ab)) >>),
      TMap(<< Entry(K_id, TStr(<<"m">>)), Entry(K_x, V) >>),
      TMap(<< Entry(K_class, V), Entry(K_ext, V) >>),
      TMap(<< Entry(K_class, V), Entry(K_x, TInt(7)) >>) }

RecordCases ==
    ({"A", "Sub"} \X IdRecordTrees) \cup ({"P"} \X PlainRecordTrees)
    \cup ({"D", "DId", "DBad"} \X DefaultTrees)

\* bound on the length of the generated sequences
MaxSeqLen == 2

\* raw scalars: null, bool, 64-bit integers in and beyond the range of i32,
\* 64-bit floats in and beyond the range of f32, strings
Scalars ==
    { TNull, TBool(TRUE), TInt(7), TInt(-3), TLong(1, 5), TLong(-2, 0),
      TFloat(2), TFloat(40), V }

SeqElems == { TNull, TInt(7), TFloat(40), V }

SeqTrees ==
    { TSeq(q) : q \in UNION { [1..n -> SeqElems] : n \in 0..MaxSeqLen } }
    \cup { TSeq(<< TSeq(<< TInt(7) >>), V >>), TSeq(<< TSeq(<< TNull >>) >>) }

ObjectTrees ==
    { TMap(<< >>),
      TMap(<< Entry(K_x, TInt(7)) >>),
      TMap(<< Entry(K_x, TInt(7)), Entry(K_y, V) >>),
      TMap(<< Entry(K_x, TInt(7)), Entry(K_x, V) >>),
      TMap(<< Entry(K_x, TInt(7)), Entry(K_y, V), Entry(K_x, TInt(7)) >>),
      TMap(<< Entry(K_x, TNull), Entry(K_y, TInt(1)), Entry(K_y, TInt(2)) >>),
      TMap(<< Entry(K_y, TInt(1)), Entry(K_y, TInt(2)), Entry(K_x, TNull) >>),
      TMap(<< Entry(K_x, TInt(7)), Entry(K_y, TNull) >>),
      TMap(<< Entry(K_x, TMap(<< Entry(K_y, TInt(1)), Entry(K_y, TInt(2)) >>)) >>),
      TMap(<< Entry(K_x, TMap(<< Entry(K_y, TInt(1)) >>)),
              Entry(K_y, TSeq(<< TInt(7), V >>)) >>),
      TMap(<< Entry(K_x, TSeq(<< TNull >>)) >>),
      TMap(<< Entry(K_id, TStr(<<"m">>)), Entry(K_x, TMap(<< Entry(K_id, TStr(<<"m">>)) >>)) >>) }

AnyCases == {"Any"} \X (Scalars \cup SeqTrees \cup ObjectTrees)

\* the list seeds of both generations, on scalars, mappings and sequences
ListTypes == {"ListAny", "ListStr", "ListStep", "BoxAny", "BoxStr"}

ListTrees ==
    Scalars \cup SeqTrees
    \cup { TMap(<< Entry(K_x, V) >>), IdRecord(<<"m">>),
           TSeq(<< IdRecord(<<"m">>), IdRecord(<<"s">>) >>),
           TSeq(<< IdRecord(<<"m">>), IdRecord(<<"m">>) >>) }

ListCases == ListTypes \X ListTrees

\* the enums of unit variants on strings that are and are not literals,
\* and on other scalars
EnumTypes == {"Cls", "Dup"}
EnumTrees ==
    { TStr(L_a), TStr(L_A), TStr(L_ab), TStr(<<"A", "b">>), TStr(<<"z">>),
      TStr(<< >>), TInt(7), TNull }
EnumCases == EnumTypes \X EnumTrees

DecodeCases == RecordCases \cup AnyCases \cup ListCases \cup EnumCases

\* the two runtimes: src/private/de and salad-core
Generations == {"old", "core"}

\* fields with #[salad(map_key = ..)], with and without map_predicate
MapFields ==
    { [Field(K_jobs, "ListStep", TRUE) EXCEPT !.map_key = K_id],
      [Field(K_jobs, "ListStep", TRUE) EXCEPT !.map_key = K_id,
                                              !.map_predicate = K_run],
      [Field(K_jobs, "ListAny", TRUE) EXCEPT !.map_key = K_x],
      [Field(K_jobs, "ListAny", TRUE) EXCEPT !.map_key = K_x,
                                             !.map_predicate = K_y] }

M == <<"m">>
S == <<"s">>

\* content handed to a map-or-sequence seed: mappings whose entry values
\* are mappings, scalars or both, sequences of mappings, and a scalar
MapTrees ==
    { TMap(<< >>),
      TMap(<< Entry(M, TMap(<< Entry(K_run, V) >>)),
              Entry(S, TMap(<< Entry(K_run, V2) >>)) >>),
      TMap(<< Entry(M, TMap(<< Entry(K_y, TInt(1)) >>)),
              Entry(S, TMap(<< Entry(K_y, TInt(2)) >>)) >>),
      TMap(<< Entry(M, TMap(<< Entry(K_run, V) >>)),
              Entry(M, TMap(<< Entry(K_run, V) >>)) >>),
      TMap(<< Entry(M, TMap(<< Entry(K_run, V), Entry(K_id, TStr(S)) >>)) >>),
      TMap(<< Entry(M, TMap(<< Entry(K_x, V), Entry(K_y, V) >>)) >>),
      TMap(<< Entry(M, TMap(<< Entry(K_y, TNull), Entry(K_x, V) >>)) >>),
      TMap(<< Entry(S, TMap(<< Entry(K_run, V) >>)),
              Entry(M, TMap(<< Entry(K_id, TStr(S)), Entry(K_run, V2) >>)) >>),
      TMap(<< Entry(M, TMap(<< Entry(K_run, V), Entry(K_run, V2) >>)),
              Entry(S, TMap(<< >>)) >>),
      TMap(<< Entry(M, TMap(<< >>)), Entry(S, TMap(<< Entry(K_run, TInt(7)) >>)) >>),
      TMap(<< Entry(M, V), Entry(S, V2) >>),
      TMap(<< Entry(M, TInt(10)), Entry(S, TInt(20)) >>),
      TMap(<< Entry(M, V), Entry(S, TMap(<< Entry(K_run, V2) >>)) >>),
      TMap(<< Entry(M, TMap(<< Entry(K_run, V) >>)), Entry(S, V2) >>),
      TMap(<< Entry(M, TMap(<< Entry(K_run, TNull) >>)), Entry(S, V2) >>),
      TMap(<< Entry(M, TNull) >>),
      TMap(<< Entry(M, TSeq(<< V >>)) >>),
      TSeq(<< TMap(<< Entry(K_id, TStr(M)), Entry(K_run, V) >>),
              TMap(<< Entry(K_run, V2), Entry(K_id, TStr(S)) >>) >>),
      TSeq(<< TMap(<< Entry(K_x, TStr(M)), Entry(K_y, TInt(1)) >>) >>),
      V }

DecodeInit ==
    /\ reg = new
    /\ fork = [live |-> FALSE, r |-> NoReg]
    /\ last = NoLast
    /\ nops = 0
    /\ un = NoUnion
    /\ bind = [NoBind EXCEPT !.phase = "ready"]

\* what a build makes of a decode: its result, or, when the decode has run
\* into `debug_assert!(false, ..); unsafe { unreachable_unchecked() }`, the
\* panic of a debug build or whatever a release build does (a value or an
\* error never computed by the decoder)
Outcomes(res) ==
    IF res.err = "unreachable_unchecked"
    THEN { [res EXCEPT !.err = "panic"],
           [Ok([v |-> "undefined"], res.r) EXCEPT !.field = res.field],
           [Err("undefined", res.r) EXCEPT !.field = res.field] }
    ELSE { res }

\* the seed of type ty decodes the tree on the registry reg
Decode(ty, tree, ord) ==
    /\ bind.phase = "ready"
    /\ \E out \in Outcomes(decode(ty, tree, reg, ord)) :
          bind' = [phase |-> "done", root |-> ty, shape |-> "tree", a |-> <<>>,
                   b |-> <<>>, ord |-> ord, doc |-> tree, pre |-> reg,
                   res |-> out, seed |-> NoSeed, again |-> NoRes,
                   cast |-> NoBind.cast]
    /\ reg' = bind'.res.r
    /\ UNCHANGED <<fork, last, nops, un>>

\* the map-or-sequence seed of field f decodes the tree on the registry
\* reg: MapOrSeqDeserializeSeed::new(key, predicate, &data), or the
\* MapDeserializeSeed of salad-core
map_seed(gen, f, tree, r, ord) ==
    IF gen = "core" THEN decode_map(f, tree, r, ord)
    ELSE decode_map_or_seq(f, tree, r, ord)

\* a unit value is written by Serialize (collect_str of its Display) and
\* the string is read back by Deserialize
Reread(ty, i) ==
    /\ bind.phase = "ready"
    /\ bind' = [phase |-> "done", root |-> ty, shape |-> "unit",
                a |-> <<>>, b |-> <<>>, ord |-> "fwd",
                doc |-> TStr(to_string(Unit(ty, i))), pre |-> reg,
                res |-> decode(ty, TStr(to_string(Unit(ty, i))), reg, "fwd"),
                seed |-> NoSeed, again |-> NoRes,
                cast |-> [any |-> Unit(ty, i), kind |-> "str", res |-> NoVal]]
    /\ UNCHANGED <<reg, fork, last, nops, un>>

DecodeMap(gen, f, tree, ord) ==
    /\ bind.phase = "ready"
    /\ bind' = [phase |-> "done", root |-> f.ty, shape |-> "map_or_seq",
                a |-> <<>>, b |-> <<>>, ord |-> ord, doc |-> tree, pre |-> reg,
                res |-> map_seed(gen, f, tree, reg, ord),
                seed |-> [gen |-> gen, f |-> f], again |-> NoRes,
                cast |-> NoBind.cast]
    /\ reg' = bind'.res.r
    /\ UNCHANGED <<fork, last, nops, un>>

DecodeNext ==
    \/ \E id \in UnionIds :
          bind.phase = "ready" /\ nops < MaxSetup /\ GenerateId("reg", id)
    \/ \E s \in SubscopeNames :
          bind.phase = "ready" /\ nops < MaxSetup /\ PushSubscope("reg", s)
    \/ bind.phase = "ready" /\ nops < MaxSetup /\ PopParentId("reg")
    \/ \E c \in DecodeCases, ord \in Orders : Decode(c[1], c[2], ord)
    \/ \E gen \in Generations, f \in MapFields, tree \in MapTrees, ord \in Orders :
          DecodeMap(gen, f, tree, ord)
    \/ \E ty \in EnumTypes : \E i \in 1..Len(Schema[ty].literals) : Reread(ty, i)

DecodeSpec == DecodeInit /\ [][DecodeNext]_vars

Decoded == bind.phase = "done" /\ bind.shape = "tree"
IsRecord(ty) == Schema[ty].kind = "record"

\* C12: the parent-context stack is balanced across every record decode:
\* the stack when the decode returns is the stack at its entry, whether
\* the decode succeeds or fails.
C12_StackBalancedOnReturn ==
    (Decoded /\ IsRecord(bind.root))
    => bind.res.r.parent_ids = bind.pre.parent_ids

\* what the code keeps: a record decode that succeeds leaves the stack as
\* it found it; one that fails leaves the entry stack as a prefix
C12_StackBalancedOnSuccess ==
    (Decoded /\ IsRecord(bind.root))
    => /\ bind.res.ok => bind.res.r.parent_ids = bind.pre.parent_ids
       /\ Len(bind.res.r.parent_ids) >= Len(bind.pre.parent_ids)
       /\ SubSeq(bind.res.r.parent_ids, 1, Len(bind.pre.parent_ids))
            = bind.pre.parent_ids

C12_LeakOnMissingField ==
    /\ Decoded /\ bind.root = "A"
    /\ ~bind.res.ok /\ bind.res.err = "field is null"
    /\ Len(bind.res.r.parent_ids) = Len(bind.pre.parent_ids) + 1

\* the entries of a raw mapping: whether a key occurs twice, the position of
\* the first repeated key, and of the first value AnySeed does not decode
Keys(es) == { es[i].key : i \in 1..Len(es) }
IsDup(es, j) == \E i \in 1..(j - 1) : es[i].key = es[j].key
HasDupKey(es) == \E j \in 1..Len(es) : IsDup(es, j)
IsBad(es, i) == ~decode_any(es[i].val, new).ok
HasBadValue(es) == \E i \in 1..Len(es) : IsBad(es, i)
FirstDup(es) == CHOOSE j \in 1..Len(es) : IsDup(es, j) /\ \A i \in 1..(j - 1) : ~IsDup(es, i)
FirstBad(es) == CHOOSE j \in 1..Len(es) : IsBad(es, j) /\ \A i \in 1..(j - 1) : ~IsBad(es, i)
ValueOf(es, key) == es[CHOOSE i \in 1..Len(es) : es[i].key = key].val

AnyOfMap == Decoded /\ bind.root = "Any" /\ bind.doc.k = "map"

\* the object of a mapping: exactly its keys, each bound to the Any decoding
\* of its value
IsObjectOf(res, es) ==
    /\ res.ok
    /\ res.val.v = "Object"
    /\ DOMAIN res.val.fields = Keys(es)
    /\ \A key \in Keys(es) :
         res.val.fields[key] = decode_any(ValueOf(es, key), new).val

\* C13 as stated: decoding a raw mapping into Object fails with a
\* duplicate-field error if two of its keys are identical, and otherwise
\* yields an object with exactly the mapping's keys, each bound to the Any
\* decoding of its value.
C13_ObjectOrDuplicateField ==
    AnyOfMap
    => IF HasDupKey(bind.doc.es)
       THEN ~bind.res.ok /\ bind.res.err = "duplicate field"
       ELSE IsObjectOf(bind.res, bind.doc.es)

\* C13 amended: the decode fails with a duplicate-field error when a key
\* repeats and every value before the repeated key decodes; it fails with
\* the error of the first value that does not decode when that value
\* stands before any repeated key; otherwise it yields the object.
C13_ObjectOrFirstError ==
    AnyOfMap
    => LET es == bind.doc.es
       IN  /\ (HasDupKey(es) /\ (HasBadValue(es) => FirstDup(es) <= FirstBad(es)))
                => (~bind.res.ok /\ bind.res.err = "duplicate field")
           /\ (HasBadValue(es) /\ (HasDupKey(es) => FirstBad(es) < FirstDup(es)))
                => /\ ~bind.res.ok
                   /\ bind.res.err = decode_any(es[FirstBad(es)].val, new).err
           /\ (~HasDupKey(es) /\ ~HasBadValue(es)) => IsObjectOf(bind.res, es)
           /\ bind.res.r = bind.pre

C13_Witness ==
    /\ AnyOfMap
    /\ HasDupKey(bind.doc.es) /\ ~HasBadValue(bind.doc.es)
    /\ Len(bind.doc.es) = 3
    /\ bind.res.err = "duplicate field"

C13_WitnessObject ==
    /\ AnyOfMap
    /\ Len(bind.doc.es) = 2
    /\ IsObjectOf(bind.res, bind.doc.es)
    /\ bind.res.val.fields[K_x].v = "Object"

\* raw trees that are scalars or sequences of such trees, and those among
\* them that hold no null
RECURSIVE IsScalarOrSeq(_)
IsScalarOrSeq(tree) ==
    \/ tree.k \in {"null", "bool", "int", "float", "str"}
    \/ tree.k = "seq" /\ \A i \in 1..Len(tree.es) : IsScalarOrSeq(tree.es[i])

RECURSIVE NullFree(_)
NullFree(tree) ==
    /\ tree.k /= "null"
    /\ \A i \in 1..Len(tree.es) : NullFree(IF tree.k = "map" THEN tree.es[i].val
                                                          ELSE tree.es[i])

AnyOfScalarOrSeq == Decoded /\ bind.root = "Any" /\ IsScalarOrSeq(bind.doc)

\* C14 as stated: the Any decode of a raw tree that is Null, Bool, Int64,
\* Float64, String or a sequence of such trees returns a value, never an
\* error.
C14_AnyDecodeIsTotal == AnyOfScalarOrSeq => bind.res.ok

\* C14 amended: the Any decode of a raw tree that is Bool, Int64, Float64,
\* String or a sequence of such trees returns a value of the matching kind
\* (Int within the range of i32 and Long beyond it, Float within the range
\* of f32 and Double beyond it, a list of the elements' values in order);
\* a tree that is or holds a null is rejected with an invalid-type error.
C14_AnyDecodeIsTotalOnNonNull ==
    AnyOfScalarOrSeq
    => /\ bind.res.ok <=> NullFree(bind.doc)
       /\ ~bind.res.ok => bind.res.err = "invalid type"
       /\ bind.res.ok
            => /\ bind.doc.k = "bool" => bind.res.val.v = "Bool"
               /\ bind.doc.k = "int" => bind.res.val.v \in {"Int", "Long"}
               /\ (bind.doc.k = "int" /\ bind.doc.hi \notin {-1, 0})
                    => (bind.res.val.v = "Long" /\ bind.res.val.hi = bind.doc.hi
                           /\ bind.res.val.n = bind.doc.n)
               /\ (bind.doc.k = "int" /\ bind.doc.hi = 0)
                    => (bind.res.val.v = "Int" /\ bind.res.val.n = bind.doc.n)
               /\ bind.doc.k = "float" => bind.res.val.v \in {"Float", "Double"}
               /\ bind.doc.k = "str"
                    => (bind.res.val.v = "String" /\ bind.res.val.s = bind.doc.s)
               /\ bind.doc.k = "seq"
                    => /\ bind.res.val.v = "List"
                       /\ Len(bind.res.val.items) = Len(bind.doc.es)
                       /\ \A i \in 1..Len(bind.doc.es) :
                            bind.res.val.items[i]
                              = decode_any(bind.doc.es[i], new).val
       /\ bind.res.r = bind.pre

C14_Witness ==
    /\ AnyOfScalarOrSeq
    /\ bind.doc.k = "seq" /\ Len(bind.doc.es) = 2
    /\ bind.res.ok
    /\ bind.res.val.items[1].v = "Int"
    /\ bind.res.val.items[2].v = "Double"

C14_WitnessLong ==
    /\ AnyOfScalarOrSeq
    /\ bind.doc.k = "int"
    /\ bind.res.ok /\ bind.res.val.v = "Long"

(***************************************************************************)
(* Downcasts: a stored Any value, decoded or built by a caller, is asked   *)
(* for one kind by the Deserialize of the target type.                     *)
(***************************************************************************)
\* stored values: those the Any decode yields and those a caller builds
AnyValues ==
    { decode_any(t, new).val :
        t \in { u \in Scalars \cup SeqTrees \cup ObjectTrees : decode_any(u, new).ok } }
    \cup { [v |-> "Bool", n |-> 0], [v |-> "Int", n |-> 0], [v |-> "Int", n |-> 1],
           [v |-> "Long", hi |-> 0, n |-> 0], [v |-> "Long", hi |-> 0, n |-> 1],
           [v |-> "Long", hi |-> 0, n |-> 7], [v |-> "Long", hi |-> -1, n |-> 5],
           [v |-> "Double", n |-> 2] }

DowncastInit ==
    /\ reg = new
    /\ fork = [live |-> FALSE, r |-> NoReg]
    /\ last = NoLast
    /\ nops = 0
    /\ un = NoUnion
    /\ bind = [NoBind EXCEPT !.phase = "ready"]

\* SaladAnyDeserializer(self): the value to be downcast
Hold(any) ==
    /\ bind.phase = "ready"
    /\ bind' = [bind EXCEPT !.phase = "held", !.cast.any = any]
    /\ UNCHANGED <<reg, fork, last, nops, un>>

\* T::deserialize(deserializer) asks for one kind
Downcast(kind) ==
    /\ bind.phase = "held"
    /\ bind' = [bind EXCEPT !.phase = "cast", !.cast.kind = kind,
                            !.cast.res = deserialize_request(kind, bind.cast.any)]
    /\ UNCHANGED <<reg, fork, last, nops, un>>

DowncastNext ==
    \/ \E any \in AnyValues : Hold(any)
    \/ \E kind \in Requests : Downcast(kind)

DowncastSpec == DowncastInit /\ [][DowncastNext]_vars

\* the request that names the kind of a stored variant
KindOf(any) ==
    CASE any.v = "Bool" -> "bool"
      [] any.v = "Int" -> "i32"
      [] any.v = "Long" -> "i64"
      [] any.v = "Float" -> "f32"
      [] any.v = "Double" -> "f64"
      [] any.v = "String" -> "str"
      [] any.v = "Object" -> "map"
      [] any.v = "List" -> "seq"

Cast == bind.phase = "cast"

\* C15 as stated: a typed request whose kind differs from the kind of the
\* stored variant returns a downcast error; no request panics; a request
\* for a boolean on a non-boolean variant fails.
C15_KindMismatchFails ==
    Cast
    => /\ bind.cast.res.ok \in BOOLEAN
       /\ bind.cast.kind /= KindOf(bind.cast.any) => ~bind.cast.res.ok
       /\ (bind.cast.kind = "bool" /\ bind.cast.any.v /= "Bool") => ~bind.cast.res.ok

\* the numeric requests the deserializer answers from a variant of another
\* kind: a boolean from the integers 0 and 1, a 32-bit integer from a Long
\* within the range of i32, a 64-bit integer from an Int, a 32-bit float from
\* a Double within the range of f32, a 64-bit float from a Float
Coerces(kind, any) ==
    \/ kind = "bool" /\ any.v \in {"Int", "Long"} /\ AsI64(any).hi = 0
          /\ AsI64(any).lo \in {0, 1}
    \/ kind = "i32" /\ any.v = "Long" /\ any.hi \in {-1, 0}
    \/ kind = "i64" /\ any.v = "Int"
    \/ kind = "f32" /\ any.v = "Double" /\ any.n <= 38
    \/ kind = "f64" /\ any.v = "Float"

\* C15 amended: a typed request returns a downcast error, and never panics,
\* exactly when its kind differs from the kind of the stored variant and
\* is not one of the numeric coercions; a request of the variant's own kind
\* hands the stored value to the visitor method of that kind.
C15_MismatchFailsButForCoercions ==
    Cast
    => /\ bind.cast.res.ok \in BOOLEAN
       /\ bind.cast.res.ok
            <=> \/ bind.cast.kind = KindOf(bind.cast.any)
                \/ Coerces(bind.cast.kind, bind.cast.any)
       /\ ~bind.cast.res.ok => bind.cast.res.err = "could not downcast"
       /\ bind.cast.res.ok => KindOf(bind.cast.res.any) = bind.cast.kind
       /\ bind.cast.kind = KindOf(bind.cast.any)
            => bind.cast.res.any = bind.cast.any

C15_Witness ==
    /\ Cast
    /\ bind.cast.any.v = "String" /\ bind.cast.kind = "bool"
    /\ ~bind.cast.res.ok

C15_WitnessLongAsInt ==
    /\ Cast
    /\ bind.cast.any.v = "Long" /\ bind.cast.any.hi = 1 /\ bind.cast.kind = "i32"
    /\ ~bind.cast.res.ok

\* the decode of one element on the registry the list decode started from
ElemOf(tree) == decode(Schema[bind.root].elem, tree, bind.pre, bind.ord)

ListDecoded == Decoded /\ bind.root \in ListTypes

\* the outcomes C16 names: a singleton of the decoded mapping, the in-order
\* list of the decoded elements, a singleton of the decoded scalar
SingletonOf(dec) ==
    IF dec.ok
    THEN /\ bind.res.ok
         /\ bind.res.val = [v |-> "List", items |-> << dec.val >>]
         /\ bind.res.r = dec.r
    ELSE ~bind.res.ok

InOrderList ==
    /\ bind.res.ok => Len(bind.res.val.items) = Len(bind.doc.es)
    /\ Schema[bind.root].elem \in {"Any", "Str"}
         => /\ bind.res.ok <=> \A i \in 1..Len(bind.doc.es) : ElemOf(bind.doc.es[i]).ok
            /\ bind.res.ok
                 => \A i \in 1..Len(bind.doc.es) :
                      bind.res.val.items[i] = ElemOf(bind.doc.es[i]).val

\* C16: the one-or-many normalizer returns a singleton list holding the
\* decoded T when the raw tree is a mapping, the in-order list of decoded
\* elements when it is a sequence, and a singleton list holding the decoded
\* T when it is any other scalar that T can decode.
C16_OneOrMany ==
    ListDecoded
    => /\ bind.doc.k = "map" => SingletonOf(ElemOf(bind.doc))
       /\ bind.doc.k = "seq" => InOrderList
       /\ bind.doc.k \notin {"map", "seq"} => SingletonOf(ElemOf(bind.doc))

\* what holds of both generations (mappings and sequences), and of the seed
\* of salad-core on scalars; the seed of the first generation rejects every
\* scalar
C16_OneOrManyBut ==
    ListDecoded
    => /\ bind.doc.k = "map" => SingletonOf(ElemOf(bind.doc))
       /\ bind.doc.k = "seq" => InOrderList
       /\ (bind.doc.k \notin {"map", "seq"} /\ Schema[bind.root].kind = "boxlist")
            => SingletonOf(ElemOf(bind.doc))
       /\ (bind.doc.k \notin {"map", "seq"} /\ Schema[bind.root].kind = "list")
            => (~bind.res.ok /\ bind.res.err = "invalid type")

C16_BareStringRejected ==
    /\ ListDecoded /\ bind.root = "ListStr" /\ bind.doc = V
    /\ ElemOf(bind.doc).ok
    /\ ~bind.res.ok

C16_BareStringWrapped ==
    /\ ListDecoded /\ bind.root = "BoxStr" /\ bind.doc = V
    /\ bind.res.ok /\ Len(bind.res.val.items) = 1

MapDecoded == bind.phase = "done" /\ bind.shape = "map_or_seq"

\* a mapping whose entry values are all mappings
AllMappings(tree) ==
    tree.k = "map" /\ \A i \in 1..Len(tree.es) : tree.es[i].val.k = "map"

\* the entry value with the field key -> entryKey added, before its own
\* entries or after them
KeyFirst(f, e) == TMap(<< Entry(f.map_key, TStr(e.key)) >> \o e.val.es)
KeyLast(f, e) == TMap(Append(e.val.es, Entry(f.map_key, TStr(e.key))))

\* the sequence forms of the mapping decoded
SeqFormKeyFirst ==
    TSeq([i \in 1..Len(bind.doc.es) |-> KeyFirst(bind.seed.f, bind.doc.es[i])])
SeqFormKeyLast ==
    TSeq([i \in 1..Len(bind.doc.es) |-> KeyLast(bind.seed.f, bind.doc.es[i])])

\* the same seed on another tree, from the registry the decode started from
SeedOn(tree) == map_seed(bind.seed.gen, bind.seed.f, tree, bind.pre, bind.ord)

\* both decodes fail, or both return the same list and leave the same
\* registry
SameList(a, b) == a.ok = b.ok /\ (a.ok => (a.val = b.val /\ a.r = b.r))

\* C17: for a mapping whose entry values are all mappings, the
\* map-or-sequence decode with key k yields the same list as the decode of
\* the sequence obtained by adding the field k -> entryKey to each entry
\* value, with one output element per entry, in the entry order of the
\* mapping.
C17_MapEqualsSequenceForm ==
    (MapDecoded /\ AllMappings(bind.doc))
    => /\ SameList(bind.res, SeedOn(SeqFormKeyFirst))
       /\ SameList(bind.res, SeedOn(SeqFormKeyLast))
       /\ bind.res.ok => Len(bind.res.val.items) = Len(bind.doc.es)
       /\ (bind.res.ok /\ Schema[bind.root].elem = "Any")
            => \A i \in 1..Len(bind.doc.es) :
                  bind.res.val.items[i]
                    = ElemOf(KeyFirst(bind.seed.f, bind.doc.es[i])).val

\* {m: {y: 1}, s: {y: 2}} with key x has been decoded to two objects
C17_Witness ==
    /\ MapDecoded /\ AllMappings(bind.doc)
    /\ bind.seed.f.map_key = K_x /\ bind.seed.f.map_predicate = NoStr
    /\ bind.doc = TMap(<< Entry(M, TMap(<< Entry(K_y, TInt(1)) >>)),
                          Entry(S, TMap(<< Entry(K_y, TInt(2)) >>)) >>)
    /\ bind.res.ok
    /\ Len(bind.res.val.items) = 2
    /\ DOMAIN bind.res.val.items[2].fields = {K_x, K_y}

\* two identifier records out of {m: {run: v}, s: {run: u}} with key id
C17_WitnessRecords ==
    /\ MapDecoded /\ AllMappings(bind.doc)
    /\ bind.seed.f.map_key = K_id /\ bind.seed.gen = "old"
    /\ bind.res.ok /\ Len(bind.res.val.items) = 2
    /\ bind.res.r.ids /= bind.pre.ids

\* the two-field mapping {key: entryKey, p: entryValue}
TwoFields(f, e) ==
    TMap(<< Entry(f.map_key, TStr(e.key)), Entry(f.map_predicate, e.val) >>)

\* the mapping each entry stands for when a predicate is configured
EntryObject(f, e) == IF e.val.k = "map" THEN KeyLast(f, e) ELSE TwoFields(f, e)

SeqFormWithPredicate ==
    TSeq([i \in 1..Len(bind.doc.es) |-> EntryObject(bind.seed.f, bind.doc.es[i])])

WithPredicate ==
    MapDecoded /\ bind.doc.k = "map" /\ bind.seed.f.map_predicate /= NoStr

HasScalarEntry(tree) == \E i \in 1..Len(tree.es) : tree.es[i].val.k /= "map"

\* C18: with a predicate field p configured, each mapping entry whose value
\* is not a mapping is decoded as the two-field mapping {key: entryKey,
\* p: entryValue}, entry by entry; scalar-valued and mapping-valued entries
\* may be mixed.
C18_PredicateEntries ==
    WithPredicate
    => /\ SameList(bind.res, SeedOn(SeqFormWithPredicate))
       /\ bind.res.ok => Len(bind.res.val.items) = Len(bind.doc.es)
       /\ (bind.res.ok /\ Schema[bind.root].elem = "Any")
            => \A i \in 1..Len(bind.doc.es) :
                  bind.doc.es[i].val.k /= "map"
                  => /\ DOMAIN bind.res.val.items[i].fields
                          = {bind.seed.f.map_key, bind.seed.f.map_predicate}
                     /\ bind.res.val.items[i].fields[bind.seed.f.map_key]
                          = decode_any(TStr(bind.doc.es[i].key), bind.pre).val
                     /\ bind.res.val.items[i].fields[bind.seed.f.map_predicate]
                          = decode_any(bind.doc.es[i].val, bind.pre).val

\* {m: 10, s: 20} with key x and predicate y has been decoded to two objects
C18_Witness ==
    /\ WithPredicate
    /\ bind.doc = TMap(<< Entry(M, TInt(10)), Entry(S, TInt(20)) >>)
    /\ bind.seed.f.map_key = K_x
    /\ bind.res.ok /\ Len(bind.res.val.items) = 2

\* a scalar-valued and a mapping-valued entry decoded to two records
C18_WitnessMixed ==
    /\ WithPredicate
    /\ bind.doc = TMap(<< Entry(M, V), Entry(S, TMap(<< Entry(K_run, V2) >>)) >>)
    /\ bind.seed.f.map_key = K_id
    /\ bind.res.ok /\ Len(bind.res.val.items) = 2

NoPredicate ==
    MapDecoded /\ bind.doc.k = "map" /\ bind.seed.f.map_predicate = NoStr

\* the first entry whose value is not a mapping, and the entries before it
FirstScalar(tree) ==
    CHOOSE i \in 1..Len(tree.es) :
        /\ tree.es[i].val.k /= "map"
        /\ \A j \in 1..(i - 1) : tree.es[j].val.k = "map"
Before(tree) == TMap(SubSeq(tree.es, 1, FirstScalar(tree) - 1))

\* the decode reaches the first scalar-valued entry: the entries before it
\* have been decoded
ReachesScalarEntry == SeedOn(Before(bind.doc)).ok

\* C19: with no predicate configured, a mapping that contains an entry
\* whose value is not a mapping makes the whole decode fail at that entry
\* with an error that names the offending field; no list is returned.
C19_ScalarEntryFailsNamingField ==
    (NoPredicate /\ HasScalarEntry(bind.doc))
    => /\ ~bind.res.ok
       /\ ReachesScalarEntry => bind.res.field /= NoStr

\* what the two seeds do: both fail, salad-core's with the name of the key
\* field in the message, the first generation's with a message that names
\* no field
C19_ScalarEntryFails ==
    (NoPredicate /\ HasScalarEntry(bind.doc))
    => /\ ~bind.res.ok
       /\ bind.res.val = NoVal
       /\ ReachesScalarEntry
            => /\ bind.res.r = SeedOn(Before(bind.doc)).r
               /\ bind.seed.gen = "core"
                    => /\ bind.res.err = "field requires a map or predicate value"
                       /\ bind.res.field = bind.seed.f.map_key
               /\ bind.seed.gen = "old"
                    => /\ bind.res.err
                            = "data type cannot be deserialized as a list of objects"
                       /\ bind.res.field = NoStr

\* the first generation has failed at the scalar-valued second entry of
\* {m: {run: v}, s: u}
C19_UnnamedField ==
    /\ NoPredicate /\ HasScalarEntry(bind.doc) /\ ReachesScalarEntry
    /\ FirstScalar(bind.doc) = 2
    /\ bind.seed.gen = "old"
    /\ ~bind.res.ok /\ bind.res.field = NoStr

RecordOfMap == Decoded /\ IsRecord(bind.root) /\ bind.doc.k = "map"

\* an entry before the second occurrence of the repeated key stops the
\* decode: in a record with an identifier the identifier entry, when its
\* value is no string or generate_id rejects it; in a record without, an
\* entry whose value does not decode
FailsBefore(d, es, j) ==
    IF d.id /= NoStr
    THEN /\ es[j].key = d.id
         /\ \/ es[j].val.k /= "str"
            \/ ~generate_id(bind.pre, es[j].val.s).ok
    ELSE ~decode_entry(d, es[j].key, es[j].val, bind.pre, bind.ord).ok

FailsBeforeDup(d, es) == \E j \in 1..(FirstDup(es) - 1) : FailsBefore(d, es, j)

\* C20 as stated: a record decode fails with a duplicate-field error
\* whenever the raw mapping contains the same key twice, whether the key is
\* a declared field, the identifier field or an extension key.
C20_DuplicateKeyIsDuplicateField ==
    (RecordOfMap /\ HasDupKey(bind.doc.es))
    => (~bind.res.ok /\ bind.res.err = "duplicate field")

\* C20: a record decode fails whenever the raw mapping contains the same
\* key twice, whether the key is a declared field, the identifier field or
\* an extension key; the error is the duplicate-field error unless an entry
\* before the second occurrence has already stopped the decode with its own
\* error.  No value is returned.
C20_DuplicateKeyFails ==
    (RecordOfMap /\ HasDupKey(bind.doc.es))
    => /\ ~bind.res.ok
       /\ bind.res.val = NoVal
       /\ bind.res.err = "duplicate field"
            <=> ~FailsBeforeDup(Schema[bind.root], bind.doc.es)

\* the identifier field was met twice
C20_Witness ==
    /\ RecordOfMap /\ HasDupKey(bind.doc.es)
    /\ bind.doc.es[FirstDup(bind.doc.es)].key = K_id
    /\ ~bind.res.ok /\ bind.res.err = "duplicate field"

\* an extension key was met twice in a record without identifier
C20_WitnessExtension ==
    /\ RecordOfMap /\ HasDupKey(bind.doc.es)
    /\ bind.root = "P"
    /\ bind.doc.es[FirstDup(bind.doc.es)].key = K_ext
    /\ ~bind.res.ok /\ bind.res.err = "duplicate field"

\* the identifier was registered already: the decode stops on it before it
\* meets the repeated key
C20_WitnessOtherError ==
    /\ RecordOfMap /\ HasDupKey(bind.doc.es)
    /\ ~bind.res.ok /\ bind.res.err = "duplicate identifier"

\* the entry scan of the record has passed: no key twice, every value
\* decoded (the scan of the mapping with the checks left out succeeds)
DeclaredField(d, name) == \E i \in 1..Len(d.fields) : d.fields[i].name = name
Absent(d, es) == { i \in 1..Len(d.fields) : d.fields[i].name \notin Keys(es) }
Lenient(d) ==
    [d EXCEPT !.fields = [i \in 1..Len(d.fields) |->
                             [d.fields[i] EXCEPT !.optional = TRUE,
                                                 !.default = NoVal]]]
EntryValue(d, e) == decode_entry(d, e.key, e.val, bind.pre, bind.ord)
ScanPasses(d, es) ==
    /\ ~HasDupKey(es)
    /\ \A j \in 1..Len(es) : EntryValue(d, es[j]).ok
    /\ \A j \in 1..Len(es) :
          es[j].key = d.id => generate_id(bind.pre, es[j].val.s).ok

\* the absent fields that stop the decode: mandatory, no default
MissingMandatory(d, es) ==
    { i \in Absent(d, es) : ~d.fields[i].optional /\ d.fields[i].default = NoVal }
Defaulted(d, es) == { i \in Absent(d, es) : d.fields[i].default /= NoVal }

DefaultRecord ==
    /\ Decoded /\ bind.root \in {"D", "DId", "DBad"} /\ bind.doc.k = "map"
    /\ ScanPasses(Schema[bind.root], bind.doc.es)

\* C21: after the entry scan of a record, for each declared field absent
\* from the input: with a configured default the bound record holds that
\* default; else, if mandatory, the decode fails with "the field `..` is
\* null" naming the field; else the field stays absent.  A field present in
\* the input is never replaced by its default.
C21_DefaultsAndMandatoryFields ==
    DefaultRecord
    => LET d == Schema[bind.root]
           es == bind.doc.es
       IN  IF MissingMandatory(d, es) /= {}
           THEN /\ ~bind.res.ok
                /\ bind.res.err = "field is null"
                /\ \E i \in MissingMandatory(d, es) : bind.res.field = d.fields[i].name
           ELSE /\ bind.res.ok
                /\ bind.res.val.v = "Record"
                /\ \A i \in Defaulted(d, es) :
                      /\ d.fields[i].name \in DOMAIN bind.res.val.fields
                      /\ bind.res.val.fields[d.fields[i].name]
                           = from_str(d.fields[i].ty, d.fields[i].default.s).val
                /\ \A i \in Absent(d, es) \ Defaulted(d, es) :
                      d.fields[i].name \notin DOMAIN bind.res.val.fields
                /\ \A j \in 1..Len(es) :
                      es[j].key /= d.id
                      => bind.res.val.fields[es[j].key] = EntryValue(d, es[j]).val

\* the same, of the records whose default literals their types parse
C21_ParsedDefaultsAndMandatoryFields ==
    (DefaultRecord /\ bind.root /= "DBad") => C21_DefaultsAndMandatoryFields

\* the default "z" of an absent field is no literal of the field's enum:
\* the build has gone past unreachable_unchecked()
C21_UnparsedDefault ==
    /\ DefaultRecord /\ bind.root = "DBad"
    /\ MissingMandatory(Schema[bind.root], bind.doc.es) = {}
    /\ bind.res.field = K_mode
    /\ bind.res.err \in {"panic", "undefined"} \/ bind.res.val = [v |-> "undefined"]

\* the record holds the defaults of two absent fields beside the given one
C21_WitnessDefaults ==
    /\ DefaultRecord /\ bind.root = "D"
    /\ bind.doc = TMap(<< Entry(K_class, V) >>)
    /\ bind.res.ok
    /\ bind.res.val.fields[K_x] = [v |-> "str", s |-> <<"d">>]
    /\ bind.res.val.fields[K_mode] = Unit("Cls", 3)

EnumDecoded == Decoded /\ bind.root \in EnumTypes
Reencoded == bind.phase = "done" /\ bind.shape = "unit"

\* the first declared literal equal to the string, compared exactly
FirstEqual(ty, s) ==
    CHOOSE i \in 1..Len(Schema[ty].literals) :
        /\ Schema[ty].literals[i] = s
        /\ \A j \in 1..Len(Schema[ty].literals) : Schema[ty].literals[j] = s => i <= j

\* the decode of a string by an enum: the tag of the first equal literal,
\* or an error listing every accepted literal
EnumDecodeOfString ==
    (EnumDecoded /\ bind.doc.k = "str")
    => IF \E i \in 1..Len(Schema[bind.root].literals) :
              Schema[bind.root].literals[i] = bind.doc.s
       THEN /\ bind.res.ok
            /\ bind.res.val = Unit(bind.root, FirstEqual(bind.root, bind.doc.s))
       ELSE /\ ~bind.res.ok
            /\ bind.res.err = "invalid value"
            /\ bind.res.expected = Schema[bind.root].literals

\* C23 as stated: enum decode compares the input string case-sensitively
\* and exactly against the declared literals in declared order and returns
\* the tag of the first equal literal; an input equal to no literal fails
\* with an error listing every accepted literal; and turning a tag into its
\* string and decoding that string returns the same tag.
C23_EnumDecodeAndRoundTrip ==
    /\ EnumDecodeOfString
    /\ Reencoded => (bind.res.ok /\ bind.res.val = bind.cast.any)

PairwiseDistinct(q) == \A i, j \in 1..Len(q) : q[i] = q[j] => i = j

\* C23: the same, the round trip being that of an enum whose declared
\* literals are pairwise distinct; with a literal declared twice the later
\* tag comes back as the earlier one.
C23_EnumDecodeAndRoundTripOfDistinct ==
    /\ EnumDecodeOfString
    /\ Reencoded
         => /\ bind.res.ok
            /\ bind.res.val = Unit(bind.root, FirstEqual(bind.root, bind.doc.s))
            /\ PairwiseDistinct(Schema[bind.root].literals)
                 => bind.res.val = bind.cast.any

\* "A" is decoded to the second tag, not to the tag of "a"
C23_Witness ==
    /\ EnumDecoded /\ bind.root = "Cls" /\ bind.doc = TStr(L_A)
    /\ bind.res.ok /\ bind.res.val.tag = 2

\* the third tag of Dup is written as "a" and read back as the first
C23_WitnessShadowed ==
    /\ Reencoded /\ bind.root = "Dup" /\ bind.cast.any.tag = 3
    /\ bind.res.ok /\ bind.res.val.tag = 1

\* "Ab" is no literal: the error lists the three literals
C23_WitnessRejected ==
    /\ EnumDecoded /\ bind.root = "Cls" /\ bind.doc = TStr(<<"A", "b">>)
    /\ ~bind.res.ok /\ Len(bind.res.expected) = 3

Rebound == bind.phase = "rebound"

\* C22: for every successfully bound value, encoding the value and binding
\* the encoding again succeeds and yields a value equal to the original,
\* including records whose identifier was resolved relative to a parent
\* context.
C22_RoundTrip ==
    Rebound => (bind.again.ok /\ bind.again.val = bind.res.val)

\* a nested record bound as "m/s" under the root "m" is written with the
\* identifier "m/s" and bound again as "m/m/s"
C22_RelativeIdResolvedTwice ==
    /\ Rebound /\ bind.root = "W" /\ bind.shape = "list"
    /\ bind.a = <<"s">>
    /\ bind.res.val.fields[K_steps].items[1].fields[K_id]
         = [v |-> "str", s |-> <<"m", "/", "s">>]
    /\ bind.again.ok
    /\ bind.again.val.fields[K_steps].items[1].fields[K_id]
         = [v |-> "str", s |-> <<"m", "/", "m", "/", "s">>]

(***************************************************************************)
(* Top-level decodes one after the other.  Each builds its own             *)
(* SeedData::new() and drops it at its return; `reg` keeps the registry    *)
(* the latest of them has dropped.  The FxBuildHasher of the generated     *)
(* maps is not seeded, so the iteration order `ord` met by a decode is the *)
(* same whenever the same tree is decoded.                                 *)
(***************************************************************************)
\* documents with no identifier field
PlainDocs ==
    { TMap(<< >>), V, TInt(7),
      TMap(<< Entry(K_alt, V) >>),
      TMap(<< Entry(K_us, TSeq(<< V, V2 >>)) >>),
      TMap(<< Entry(K_u1, V), Entry(K_ext, TInt(7)) >>),
      TMap(<< Entry(K_ext, TNull), Entry(K_u1, TInt(7)) >>),
      TMap(<< Entry(K_alt, TMap(<< Entry(K_x, TInt(7)) >>)) >>),
      TMap(<< Entry(K_ext, V), Entry(K_ext, V2) >>) }

\* the first top-level decode of a document
BindFirst(root, doc, ord) ==
    /\ bind.phase = "ready"
    /\ bind' = [phase |-> "done", root |-> root, shape |-> "plain", a |-> <<>>,
                b |-> <<>>, ord |-> ord, doc |-> doc, pre |-> new,
                res |-> deserialize(root, doc, ord),
                seed |-> NoSeed, again |-> NoRes, cast |-> NoBind.cast]
    /\ reg' = bind'.res.r
    /\ UNCHANGED <<fork, last, nops, un>>

\* a top-level decode of another document, before or after the first
BindOther(root, shape, a, b, ord) ==
    /\ bind.phase \in {"ready", "done"}
    /\ nops < MaxSetup
    /\ nops' = nops + 1
    /\ reg' = deserialize(root, DocOf(shape, a, b), ord).r
    /\ UNCHANGED <<fork, last, un, bind>>

\* the document of the first decode is decoded once more
BindAgain ==
    /\ bind.phase = "done"
    /\ bind' = [bind EXCEPT !.phase = "again",
                            !.again = deserialize(bind.root, bind.doc, bind.ord)]
    /\ reg' = bind'.again.r
    /\ UNCHANGED <<fork, last, nops, un>>

IsolationNext ==
    \/ \E root \in RootTypes, doc \in PlainDocs, ord \in Orders :
          BindFirst(root, doc, ord)
    \/ \E root \in RootTypes, shape \in Shapes, a \in UnionIds, b \in UnionIds,
          ord \in Orders : BindOther(root, shape, a, b, ord)
    \/ BindAgain

IsolationSpec == BindInit /\ [][IsolationNext]_vars

LastTarget == IF last.target = "reg" THEN reg ELSE fork.r

\* C27: push_subscope(name) pushes the current top of the parent-context
\* stack followed by "/" and name, or name alone when the stack is empty;
\* depth grows by one and the uniqueness set is unchanged.  pop_parent_id
\* removes exactly the top entry and does nothing on an empty stack.
C27_SubscopePushAndPop ==
    /\ last.op = "push_subscope" =>
         /\ Len(LastTarget.parent_ids) = Len(last.pre.parent_ids) + 1
         /\ SubSeq(LastTarget.parent_ids, 1, Len(last.pre.parent_ids))
               = last.pre.parent_ids
         /\ Back(LastTarget.parent_ids) =
               IF last.pre.parent_ids = <<>>
               THEN last.arg
               ELSE Back(last.pre.parent_ids) \o <<"/">> \o last.arg
         /\ LastTarget.ids = last.pre.ids
    /\ last.op = "pop_parent_id" =>
         /\ LastTarget.ids = last.pre.ids
         /\ IF last.pre.parent_ids = <<>>
            THEN LastTarget.parent_ids = <<>>
            ELSE last.pre.parent_ids
                    = Append(LastTarget.parent_ids, Back(last.pre.parent_ids))

\* a subscope pushed under a registered identifier
C27_Witness ==
    /\ last.op = "push_subscope"
    /\ last.pre.parent_ids /= <<>>
    /\ last.pre.ids /= {}
    /\ Back(LastTarget.parent_ids) = Back(last.pre.parent_ids) \o <<"/", "w">>

\* a pop on an empty stack after the subscope was popped
C27_WitnessEmptyPop ==
    /\ last.op = "pop_parent_id"
    /\ last.pre.parent_ids = <<>>
    /\ nops >= 3

(***************************************************************************)
(* Identifier scoping of nested records                                    *)
(***************************************************************************)
HasKey(tree, key) == tree.k = "map" /\ \E j \in 1..Len(tree.es) : tree.es[j].key = key
ValueAt(tree, key) ==
    tree.es[CHOOSE j \in 1..Len(tree.es) : tree.es[j].key = key].val

\* a mapping with a string identifier and a sequence of records that each
\* hold a string identifier, handed to the seed of a record with identifier
IdRecordWithSteps ==
    /\ Decoded /\ bind.root \in {"A", "Sub"}
    /\ HasKey(bind.doc, K_id) /\ ValueAt(bind.doc, K_id).k = "str"
    /\ HasKey(bind.doc, K_steps) /\ ValueAt(bind.doc, K_steps).k = "seq"
    /\ \A k \in 1..Len(ValueAt(bind.doc, K_steps).es) :
          /\ HasKey(ValueAt(bind.doc, K_steps).es[k], K_id)
          /\ ValueAt(ValueAt(bind.doc, K_steps).es[k], K_id).k = "str"

\* the stack while the fields of the record are decoded: the entry stack
\* and the context its identifier has pushed
ContextOf(doc, parent_ids) ==
    Append(parent_ids, resolve_id(ValueAt(doc, K_id).s, parent_ids).parent_id)

\* C25: while a record with a resolved identifier is decoded, the context
\* its identifier has pushed is the top of the stack for the identifier
\* fields of the values nested directly under it, and after the record has
\* been decoded successfully the stack is what it was before: siblings a
\* and b under "main" resolve to "main/a" and "main/b", never "a/b".
C25_SiblingsShareTheParentContext ==
    (IdRecordWithSteps /\ bind.res.ok)
    => LET steps == ValueAt(bind.doc, K_steps).es
           items == bind.res.val.fields[K_steps].items
       IN  /\ Len(items) = Len(steps)
           /\ \A k \in 1..Len(steps) :
                 items[k].fields[K_id] =
                    [v |-> "str",
                     s |-> resolve_id(ValueAt(steps[k], K_id).s,
                                      ContextOf(bind.doc, bind.pre.parent_ids)).id]
           /\ bind.res.r.parent_ids = bind.pre.parent_ids

\* the siblings "s" and "m" under "m" are "m/s" and "m/m"
C25_Witness ==
    /\ IdRecordWithSteps /\ bind.res.ok /\ bind.root = "A"
    /\ bind.pre.parent_ids = << >>
    /\ ValueAt(bind.doc, K_id).s = <<"m">>
    /\ bind.res.val.fields[K_steps].items[1].fields[K_id].s = <<"m", "/", "s">>
    /\ bind.res.val.fields[K_steps].items[2].fields[K_id].s = <<"m", "/", "m">>

\* the same under a context the enclosing decode has pushed
C25_WitnessNested ==
    /\ IdRecordWithSteps /\ bind.res.ok
    /\ bind.pre.parent_ids /= << >>
    /\ Len(bind.res.val.fields[K_steps].items) = 2

(***************************************************************************)
(* The two passes of a record with an identifier                           *)
(***************************************************************************)
\* a mapping with a string identifier, handed to the seed of a record with
\* identifier, no key of which is repeated
IdRecordOfDistinctKeys ==
    /\ Decoded /\ bind.root \in {"A", "Sub"}
    /\ HasKey(bind.doc, K_id) /\ ValueAt(bind.doc, K_id).k = "str"
    /\ \A i, j \in 1..Len(bind.doc.es) :
          bind.doc.es[i].key = bind.doc.es[j].key => i = j

OwnId == generate_id(bind.pre, ValueAt(bind.doc, K_id).s)

\* C26: in a record with an identifier, generate_id for the record's own
\* identifier runs before any other field's value is decoded, wherever the
\* identifier key stands in the mapping; every nested identifier is
\* resolved with the record's identifier as its parent context.
C26_OwnIdentifierFirst ==
    IdRecordOfDistinctKeys
    => /\ ~OwnId.ok =>
            /\ ~bind.res.ok /\ bind.res.err = "duplicate identifier"
            /\ bind.res.r = bind.pre
       /\ OwnId.ok => OwnId.ret \in bind.res.r.ids
       /\ (bind.res.ok /\ IdRecordWithSteps) =>
            \A k \in 1..Len(ValueAt(bind.doc, K_steps).es) :
               resolve_id(ValueAt(ValueAt(bind.doc, K_steps).es[k], K_id).s,
                          ContextOf(bind.doc, bind.pre.parent_ids)).id
                  \in bind.res.r.ids \ bind.pre.ids

\* the identifier key stands last, after the nested records it scopes
C26_Witness ==
    /\ IdRecordOfDistinctKeys /\ IdRecordWithSteps /\ bind.res.ok
    /\ bind.doc.es[Len(bind.doc.es)].key = K_id
    /\ bind.doc.es[1].key = K_steps
    /\ ValueAt(bind.doc, K_id).s = <<"m">>
    /\ <<"m", "/", "s">> \in bind.res.r.ids

\* the identifier key stands last, after a value its field does not
\* decode: the duplicate identifier is what the decode reports
C26_WitnessDuplicateFirst ==
    /\ IdRecordOfDistinctKeys /\ ~OwnId.ok
    /\ bind.doc.es[Len(bind.doc.es)].key = K_id
    /\ bind.doc.es[1] = Entry(K_x, TInt(7))

(***************************************************************************)
(* Failures of the candidates of a union                                   *)
(***************************************************************************)
\* the error of variant j on a clone of the enclosing registry
FailureOf(j) == decode(Variants[j], un.tree, clone(un.pre), un.ord).err

FailureKinds ==
    { "invalid type", "duplicate field", "duplicate identifier", "field is null",
      "data did not match any variant of enum" }

\* C28: inside union resolution a candidate's failure of any kind
\* (structural mismatch, duplicate field, duplicate identifier inside the
\* trial, missing mandatory field, exhaustion of a nested union) is caught
\* and leads to trying the next candidate; the only errors a union decode
\* returns are exhaustion and a failed commit merge.
C28_CandidateFailuresAreCaught ==
    /\ \A j \in 1..Len(un.tried) :
          ~Decodes(j)
          => /\ FailureOf(j) \in FailureKinds
             /\ IF j < Len(Variants)
                THEN \/ Len(un.tried) > j
                     \/ un.state = "Trying" /\ un.i = j + 1
                ELSE un.state = "Exhausted"
    /\ (Returned /\ ~un.res.ok)
          => \/ /\ un.state = "Exhausted"
                /\ C11_Exhausted
                /\ \A j \in 1..Len(Variants) : ~Decodes(j)
             \/ /\ un.state = "MergeFailed"
                /\ Decodes(Len(un.tried))
                /\ un.res.err = "duplicate identifier"

\* a nested union is exhausted and the next candidate is committed
C28_Witness ==
    /\ un.state = "Committed" /\ un.ty = "ABAny"
    /\ un.tried = <<1, 2>>
    /\ FailureOf(1) = "data did not match any variant of enum"

\* the other kinds of failure, each followed by the next candidate
C28_WitnessMismatch ==
    un.state = "Committed" /\ un.tried = <<1, 2>> /\ FailureOf(1) = "invalid type"
C28_WitnessDuplicateField ==
    /\ un.state = "Exhausted" /\ un.ty = "StepOrStr" /\ un.tried = <<1, 2>>
    /\ FailureOf(1) = "duplicate field" /\ FailureOf(2) = "invalid type"
C28_WitnessDuplicateIdentifier ==
    /\ un.state = "Committed" /\ un.tried = <<1, 2>>
    /\ FailureOf(1) = "duplicate identifier"
C28_WitnessMissingField ==
    un.state = "Committed" /\ un.tried = <<1, 2>> /\ FailureOf(1) = "field is null"

(***************************************************************************)
(* The enclosing registry across a union decode                            *)
(***************************************************************************)
\* C29: a union decode never changes the enclosing registry's
\* parent-context stack, whatever the outcome, and leaves the enclosing
\* uniqueness set unchanged when every candidate fails; each candidate runs
\* on a fresh fork.
C29_EnclosingRegistryAcrossUnion ==
    /\ un.state \in {"Trying", "Committed", "MergeFailed", "Exhausted"}
          => reg.parent_ids = un.pre.parent_ids
    /\ un.state \in {"Trying", "Exhausted"} => reg.ids = un.pre.ids
    /\ \A j \in 1..Len(un.tried) :
          un.datas[j] = decode(Variants[j], un.tree,
                               [ids |-> {}, parent_ids |-> un.pre.parent_ids],
                               un.ord).r

\* every candidate has failed, the first after registering an identifier
\* and pushing its context in its fork
C29_Witness ==
    /\ un.state = "Exhausted" /\ un.tried = <<1, 2>>
    /\ un.pre.ids /= {} /\ un.pre.parent_ids /= << >>
    /\ un.datas[1].ids /= {}
    /\ Len(un.datas[1].parent_ids) > Len(un.pre.parent_ids)
    /\ reg = un.pre

\* a candidate is committed after one that left its fork's stack deeper
C29_WitnessCommitted ==
    /\ un.state = "Committed" /\ un.tried = <<1, 2>>
    /\ un.pre.parent_ids /= << >>
    /\ Len(un.datas[1].parent_ids) > Len(un.pre.parent_ids)
    /\ reg.ids /= un.pre.ids

(***************************************************************************)
(* Map-or-sequence entries whose value holds the key field already         *)
(***************************************************************************)
OwnsKey(f, e) == e.val.k = "map" /\ HasEntry(e.val.es, f.map_key)

\* the first entry whose value holds the key field, and the entries before
FirstOwner(f, tree) ==
    CHOOSE i \in 1..Len(tree.es) :
        /\ OwnsKey(f, tree.es[i])
        /\ \A j \in 1..(i - 1) : ~OwnsKey(f, tree.es[j])
BeforeOwner(f, tree) == TMap(SubSeq(tree.es, 1, FirstOwner(f, tree) - 1))

\* the decode has reached an entry whose value holds the key field
ReachesOwner ==
    /\ MapDecoded /\ bind.doc.k = "map"
    /\ \E i \in 1..Len(bind.doc.es) : OwnsKey(bind.seed.f, bind.doc.es[i])
    /\ SeedOn(BeforeOwner(bind.seed.f, bind.doc)).ok

\* an entry of the value stops the element's decode before the injected
\* pair is met: the identifier entry of a record with identifier, when
\* generate_id rejects it or it is no string; else a value that does not
\* decode
StopsBeforeInjected(elem, es, r) ==
    IF Schema[elem].kind = "record" /\ Schema[elem].id /= NoStr
    THEN \E j \in 1..Len(es) :
            /\ es[j].key = Schema[elem].id
            /\ \/ es[j].val.k /= "str"
               \/ ~generate_id(r, es[j].val.s).ok
    ELSE \E j \in 1..Len(es) : ~decode_any(es[j].val, r).ok

\* C30 as stated: an entry whose value is a mapping that already contains
\* the key field makes the element's decode see the key field twice and
\* fail with a duplicate-field error.
C30_OwnKeyIsDuplicateField ==
    ReachesOwner => (~bind.res.ok /\ bind.res.err = "duplicate field")

\* C30: an entry whose value is a mapping that already contains the key
\* field gets the pair key -> entryKey appended after its own fields, so
\* the element's decode sees the key field twice and fails: with the
\* duplicate-field error unless an entry of the value has already stopped
\* the element's decode with its own error.  The entry's own value is never
\* overwritten by, or preferred over, the entry key: no list is returned.
C30_OwnKeyFails ==
    ReachesOwner
    => LET f == bind.seed.f
           e == bind.doc.es[FirstOwner(f, bind.doc)]
           r == SeedOn(BeforeOwner(f, bind.doc)).r
       IN  /\ ~bind.res.ok
           /\ bind.res.val = NoVal
           /\ bind.res = decode(Schema[f.ty].elem, KeyLast(f, e), r, bind.ord)
           /\ bind.res.err = "duplicate field"
                <=> ~StopsBeforeInjected(Schema[f.ty].elem, e.val.es, r)

\* {m: {run: v, id: s}} under the key id: the element saw id twice
C30_Witness ==
    /\ ReachesOwner /\ bind.seed.f.map_key = K_id
    /\ Len(bind.doc.es) = 1
    /\ ~bind.res.ok /\ bind.res.err = "duplicate field"

\* an object under the key x, in both generations
C30_WitnessObject ==
    /\ ReachesOwner /\ bind.seed.f.map_key = K_x /\ bind.seed.gen = "core"
    /\ ~bind.res.ok /\ bind.res.err = "duplicate field"

\* {s: {run: v}, m: {id: s, run: u}}: the second entry's own identifier is
\* the first entry's, the decode stops on it before the injected pair
C30_WitnessOtherError ==
    /\ ReachesOwner /\ bind.seed.f.map_key = K_id
    /\ bind.pre = new
    /\ FirstOwner(bind.seed.f, bind.doc) = 2
    /\ ~bind.res.ok /\ bind.res.err = "duplicate identifier"

====
